---- MODULE Spec2Model ----
(***************************************************************************)
(* Model of the document-understanding and alignment pipeline of the       *)
(* grant-writing backend: RFPParserService, CrosswalkEngine,               *)
(* GapAnalyzerService and PlanGeneratorService (src/backend/services).     *)
(*                                                                         *)
(* Text is a sequence of tokens: "\n" is the newline character, " " a      *)
(* whitespace character, every other token a word.  "need" stands for a    *)
(* word matched by a need_statement pattern (e.g. "background"), "eval"    *)
(* for a word matched by an evaluation_plan pattern (e.g. "outcomes"),     *)
(* "w" for a word no section pattern matches.                              *)
(***************************************************************************)
EXTENDS Integers, Sequences, FiniteSets, TLC

\* ------------------------------------------------------------------------
\* Bounds
\* ------------------------------------------------------------------------
MaxTextLen == 5

\* ------------------------------------------------------------------------
\* Text helpers (Python str.split / str.join / str.strip on token strings)
\* ------------------------------------------------------------------------
NL == "\n"
SP == " "
Tokens == {NL, SP, "w", "need", "eval"}
Whitespace == {NL, SP}
None == "None"
\* None where the value is otherwise a number (Optional[int], Optional[float])
NoneNum == 0 - 1

BoundedTexts == UNION {[1..n -> Tokens] : n \in 0..MaxTextLen}

RECURSIVE Split(_)
\* text.split("\n"): always at least one line, the newlines are removed.
Split(s) ==
    IF \A k \in 1..Len(s) : s[k] # NL THEN <<s>>
    ELSE LET p == CHOOSE k \in 1..Len(s) :
                     s[k] = NL /\ \A j \in 1..(k-1) : s[j] # NL
         IN <<SubSeq(s, 1, p - 1)>> \o Split(SubSeq(s, p + 1, Len(s)))

RECURSIVE Join(_)
\* "\n".join(lines)
Join(ls) ==
    IF Len(ls) = 0 THEN <<>>
    ELSE IF Len(ls) = 1 THEN ls[1]
    ELSE ls[1] \o <<NL>> \o Join(Tail(ls))

RECURSIVE LStrip(_)
LStrip(s) == IF Len(s) > 0 /\ s[1] \in Whitespace THEN LStrip(Tail(s)) ELSE s

RECURSIVE RStrip(_)
RStrip(s) ==
    IF Len(s) > 0 /\ s[Len(s)] \in Whitespace
    THEN RStrip(SubSeq(s, 1, Len(s) - 1)) ELSE s

\* str.strip(): leading and trailing whitespace (blanks and newlines) removed
Strip(s) == RStrip(LStrip(s))

\* ------------------------------------------------------------------------
\* RFPParserService.SECTION_PATTERNS, in table order
\* ------------------------------------------------------------------------
SECTION_PATTERNS ==
    << [name |-> "need_statement",  words |-> {"need"}],
       [name |-> "evaluation_plan", words |-> {"eval"}] >>

\* inner loops that go on after a match: the last matching label wins
MatchedSection_LastInTableOrder(line) ==
    LET line_lower == Strip(line)
        hit(k) == \E j \in 1..Len(line_lower) :
                      line_lower[j] \in SECTION_PATTERNS[k].words
    IN IF \E k \in 1..Len(SECTION_PATTERNS) : hit(k)
       THEN SECTION_PATTERNS[CHOOSE k \in 1..Len(SECTION_PATTERNS) :
                hit(k) /\ \A m \in (k+1)..Len(SECTION_PATTERNS) : ~hit(m)].name
       ELSE None

\* The inner loops of _classify_sections: the first label in table order one
\* of whose patterns is found in the lower-cased, stripped line.
MatchedSection(line) ==
    LET line_lower == Strip(line)
        hit(k) == \E j \in 1..Len(line_lower) :
                      line_lower[j] \in SECTION_PATTERNS[k].words
    IN IF \E k \in 1..Len(SECTION_PATTERNS) : hit(k)
       THEN SECTION_PATTERNS[CHOOSE k \in 1..Len(SECTION_PATTERNS) :
                hit(k) /\ \A m \in 1..(k-1) : ~hit(m)].name
       ELSE None

RFPSection(name, content) ==
    [name |-> name, content |-> content, word_limit |-> None,
     scoring_weight |-> None]

\* ------------------------------------------------------------------------
\* State of one _classify_sections call
\* ------------------------------------------------------------------------
VARIABLES text, lines, i, current_section, section_content, sections, pc

vars_classify ==
    <<text, lines, i, current_section, section_content, sections, pc>>

\* ------------------------------------------------------------------------
\* State of one scoring step of _match_section (lines 216-220): the inputs
\* similarity, tag_match, scoring_weight and the calls made so far
\* ------------------------------------------------------------------------
VARIABLES similarity, tag_match, scoring_weight, scored

vars_score == <<similarity, tag_match, scoring_weight, scored>>

\* ------------------------------------------------------------------------
\* State of a CrosswalkEngine (boilerplate_data, use_ml, vectorizer) and of
\* one generate_crosswalk call on it: the arguments (rfp_sections is
\* parsed_rfp.sections), what each per-section thread returned, the list
\* returned, and the position of the call
\* ------------------------------------------------------------------------
VARIABLES boilerplate_data, use_ml, vectorizer, rfp_sections,
          boilerplate_sections, section_results, results, cw_pc

vars_engine == <<boilerplate_data, use_ml, vectorizer>>
vars_crosswalk ==
    <<rfp_sections, boilerplate_sections, section_results, results, cw_pc>>

\* ------------------------------------------------------------------------
\* State of the Gap Analyzer's scoring: the findings list, what
\* _calculate_overall_risk returned for it and what
\* _generate_top_recommendations returned for it
\* ------------------------------------------------------------------------
VARIABLES findings, overall_risk, overall_score, top_recommendations

vars_gap == <<findings, overall_risk, overall_score, top_recommendations>>

\* ------------------------------------------------------------------------
\* State of one generate_plan(parsed_rfp, crosswalk_results, gap_analysis)
\* call; parsed_rfp.sections is rfp_sections and crosswalk_results is
\* results.  plan_sections is the local list of PlanSections, plan the
\* GrantPlan returned (none yet: <<>>)
\* ------------------------------------------------------------------------
VARIABLES plan_sections, plan, plan_pc

vars_plan == <<plan_sections, plan, plan_pc>>

\* ------------------------------------------------------------------------
\* State of an RFPParserService (use_ocr) and of one parse_document call on
\* it: the declared file_type, the filename as line 243 reads it (None
\* before), the text extracted so far, the extraction_method, the results
\* of the nine extractor threads, the ParsedRFP returned (none yet: <<>>)
\* and the position of the call
\* ------------------------------------------------------------------------
VARIABLES use_ocr, file_type, filename, extracted, extraction_method,
          field_results, parsed, parse_pc

vars_parse ==
    <<use_ocr, file_type, filename, extracted, extraction_method, field_results,
      parsed, parse_pc>>

\* ------------------------------------------------------------------------
\* State of one _extract_word_limits call: the text, the pattern the outer
\* loop is at, the position of the last match handled, the limits dict (the
\* set of its items) and the position of the call
\* ------------------------------------------------------------------------
VARIABLES limit_text, pattern, match_pos, limits, limits_pc

vars_limits == <<limit_text, pattern, match_pos, limits, limits_pc>>

vars == <<vars_classify, vars_score, vars_engine, vars_crosswalk, vars_gap,
          vars_plan, vars_parse, vars_limits>>

not_classify ==
    <<vars_score, vars_engine, vars_crosswalk, vars_gap, vars_plan, vars_parse, vars_limits>>
not_score ==
    <<vars_classify, vars_engine, vars_crosswalk, vars_gap, vars_plan, vars_parse, vars_limits>>
not_crosswalk == <<vars_classify, vars_score, vars_gap, vars_plan, vars_parse, vars_limits>>
not_gap ==
    <<vars_classify, vars_score, vars_engine, vars_crosswalk, vars_plan, vars_parse, vars_limits>>
not_plan ==
    <<vars_classify, vars_score, vars_engine, vars_crosswalk, vars_gap, vars_parse, vars_limits>>
not_parse ==
    <<vars_classify, vars_score, vars_engine, vars_crosswalk, vars_gap, vars_plan,
      vars_limits>>

not_limits ==
    <<vars_classify, vars_score, vars_engine, vars_crosswalk, vars_gap, vars_plan,
      vars_parse>>

\* a text by its length: chars is len(text), stripped is len(text.strip())
TextOfLength(chars, stripped) == [chars |-> chars, stripped |-> stripped]
EmptyText == TextOfLength(0, 0)

\* the result slot of an extractor thread that has not completed
FieldPending == [status |-> "pending", value |-> <<>>]
NoFieldResults == [k \in 1..9 |-> FieldPending]

\* no parser constructed, no parse_document call
ParseIdle ==
    /\ use_ocr = FALSE /\ file_type = None /\ filename = None
    /\ extracted = EmptyText
    /\ extraction_method = "" /\ field_results = NoFieldResults
    /\ parsed = <<>> /\ parse_pc = "idle"

\* no _extract_word_limits call
LimitsIdle ==
    /\ limit_text = <<>> /\ pattern = 0 /\ match_pos = 0 /\ limits = {}
    /\ limits_pc = "idle"

\* no generate_plan call
PlanIdle == plan_sections = <<>> /\ plan = <<>> /\ plan_pc = "idle"

\* no gap analysis
GapIdle ==
    /\ findings = <<>> /\ overall_risk = None /\ overall_score = 0
    /\ top_recommendations = <<>>

\* no engine constructed, no generate_crosswalk call
CrosswalkIdle ==
    /\ boilerplate_data = <<>> /\ use_ml = FALSE /\ vectorizer = None
    /\ rfp_sections = <<>> /\ boilerplate_sections = <<>>
    /\ section_results = <<>> /\ results = <<>> /\ cw_pc = "idle"

\* no _classify_sections call in progress
ClassifyIdle ==
    /\ text = <<>> /\ lines = <<>> /\ i = 0 /\ current_section = None
    /\ section_content = <<>> /\ sections = <<>> /\ pc = "idle"

\* no scoring step in progress
ScoreIdle ==
    /\ similarity = 0 /\ tag_match = 0 /\ scoring_weight = NoneNum
    /\ scored = <<>>

\* sections = [], lines = text.split("\n"), current_section = None,
\* section_content = []
ClassifyInit ==
    /\ ScoreIdle /\ CrosswalkIdle /\ GapIdle /\ PlanIdle /\ ParseIdle /\ LimitsIdle
    /\ text \in BoundedTexts
    /\ lines = Split(text)
    /\ i = 1
    /\ current_section = None
    /\ section_content = <<>>
    /\ sections = <<>>
    /\ pc = "loop"

\* a save that loses the header line of the buffer
SectionsAfterSave_DropHeader ==
    IF current_section # None /\ section_content # <<>>
    THEN Append(sections,
                RFPSection(current_section, Strip(Join(Tail(section_content)))))
    ELSE sections

\* The header branch of the loop body: save the open section, open a new one.
SectionsAfterSave ==
    IF current_section # None /\ section_content # <<>>
    THEN Append(sections,
                RFPSection(current_section, Strip(Join(section_content))))
    ELSE sections

\* One iteration of "for i, line in enumerate(lines)" on a header line.
ClassifyHeaderLine ==
    /\ pc = "loop" /\ i <= Len(lines)
    /\ MatchedSection(lines[i]) # None
    /\ sections' = SectionsAfterSave
    /\ current_section' = MatchedSection(lines[i])
    /\ section_content' = <<lines[i]>>
    /\ i' = i + 1
    /\ UNCHANGED <<text, lines, pc, not_classify>>

\* One iteration on a line that matches no pattern.
ClassifyBodyLine ==
    /\ pc = "loop" /\ i <= Len(lines)
    /\ MatchedSection(lines[i]) = None
    /\ section_content' = IF current_section # None
                          THEN Append(section_content, lines[i])
                          ELSE section_content
    /\ i' = i + 1
    /\ UNCHANGED <<text, lines, current_section, sections, pc, not_classify>>

\* After the loop: save the last section and return.
ClassifyReturn ==
    /\ pc = "loop" /\ i > Len(lines)
    /\ sections' = SectionsAfterSave
    /\ pc' = "done"
    /\ UNCHANGED <<text, lines, i, current_section, section_content, not_classify>>

ClassifyNext == ClassifyHeaderLine \/ ClassifyBodyLine \/ ClassifyReturn

SpecClassify == ClassifyInit /\ [][ClassifyNext]_vars

\* ------------------------------------------------------------------------
\* CrosswalkEngine scoring.  A float in [0,1] is the integer number of
\* 1/Scale units; alignment_score is kept in 1/(10*Scale) units so that
\* 0.6*similarity + 0.4*tag_match is exact.
\* ------------------------------------------------------------------------
Scale == 60
ScoreScale == 10 * Scale
\* the inputs tried: 0, 0.05, ..., 1 and no weight, 0, 0.25, 0.5, 0.55, 1
Grid == {3 * k : k \in 0..(Scale \div 3)}
Weights == {NoneNum, 0, Scale \div 4, Scale \div 2, (Scale \div 2) + 3, Scale}

\* the strong and partial labels exchanged
ScoreAlignment_SwappedLabels(s, t) ==
    LET alignment_score == (s * 6) + (t * 4)
    IN [alignment_score |-> alignment_score,
        alignment_level |->
            IF alignment_score > 7 * Scale THEN "partial"
            ELSE IF alignment_score > 4 * Scale THEN "strong"
            ELSE IF alignment_score > 2 * Scale THEN "weak"
            ELSE "none"]

\* thresholds closed at the upper level: >= instead of >
ScoreAlignment_ClosedThresholds(s, t) ==
    LET alignment_score == (s * 6) + (t * 4)
    IN [alignment_score |-> alignment_score,
        alignment_level |->
            IF alignment_score >= 7 * Scale THEN "strong"
            ELSE IF alignment_score >= 4 * Scale THEN "partial"
            ELSE IF alignment_score >= 2 * Scale THEN "weak"
            ELSE "none"]

\* _score_alignment(similarity, tag_match) -> (alignment_score, level)
ScoreAlignment(s, t) ==
    LET alignment_score == (s * 6) + (t * 4)
    IN [alignment_score |-> alignment_score,
        alignment_level |->
            IF alignment_score > 7 * Scale THEN "strong"
            ELSE IF alignment_score > 4 * Scale THEN "partial"
            ELSE IF alignment_score > 2 * Scale THEN "weak"
            ELSE "none"]

\* a risk table whose weak row has the colours of the partial row
AssessRisk_WeakAsPartial(alignment_level, section_importance) ==
    IF alignment_level = "strong" THEN "green"
    ELSE IF alignment_level \in {"partial", "weak"}
         THEN (IF section_importance > Scale \div 2 THEN "yellow" ELSE "green")
    ELSE (IF section_importance > Scale \div 2 THEN "red" ELSE "yellow")

\* _assess_risk(alignment_level, section_importance)
AssessRisk(alignment_level, section_importance) ==
    IF alignment_level = "strong" THEN "green"
    ELSE IF alignment_level = "partial"
         THEN (IF section_importance > Scale \div 2 THEN "yellow" ELSE "green")
    ELSE IF alignment_level = "weak"
         THEN (IF section_importance <= Scale \div 2 THEN "yellow" ELSE "red")
    ELSE (IF section_importance > Scale \div 2 THEN "red" ELSE "yellow")

\* "rfp_section.scoring_weight or 0.5": None and 0.0 are both falsy
Importance(weight) ==
    IF weight = NoneNum \/ weight = 0 THEN Scale \div 2 ELSE weight

\* lines 216-220 of _match_section: score, gap flag and risk of one pairing
AlignSection(s, t, weight) ==
    LET a == ScoreAlignment(s, t)
    IN [alignment_score |-> a.alignment_score,
        alignment_level |-> a.alignment_level,
        gap_flag        |-> (a.alignment_level = "none"),
        risk_level      |-> AssessRisk(a.alignment_level, Importance(weight))]

ScoreInit ==
    /\ ClassifyIdle /\ CrosswalkIdle /\ GapIdle /\ PlanIdle /\ ParseIdle /\ LimitsIdle
    /\ similarity \in Grid
    /\ tag_match \in Grid
    /\ scoring_weight \in Weights
    /\ scored = <<>>

\* one call: the inputs it was made with and what it computed
ScoredCall(s, t, weight) ==
    [similarity |-> s, tag_match |-> t, scoring_weight |-> weight,
     result |-> AlignSection(s, t, weight)]

\* the scoring step on the current inputs
Score ==
    /\ scored = <<>>
    /\ scored' = <<ScoredCall(similarity, tag_match, scoring_weight)>>
    /\ UNCHANGED <<similarity, tag_match, scoring_weight, not_score>>

\* the same step again on a requirement text that is at least as similar to
\* the boilerplate, the tags matched being the same
ScoreMoreSimilar ==
    /\ Len(scored) = 1
    /\ \E s2 \in Grid :
         /\ s2 >= similarity
         /\ similarity' = s2
         /\ scored' = Append(scored, ScoredCall(s2, tag_match, scoring_weight))
    /\ UNCHANGED <<tag_match, scoring_weight, not_score>>

ScoreNext == Score \/ ScoreMoreSimilar

SpecScore == ScoreInit /\ [][ScoreNext]_vars

\* ------------------------------------------------------------------------
\* CrosswalkEngine: corpus, keyword areas, matching
\* ------------------------------------------------------------------------
MaxSections == 2

\* FOAM_KEYWORD_MAP, three of its areas in table order, each with the
\* keywords of it that occur in the texts tried
AreaOrder == <<"reentry", "fatherhood", "evaluation">>
Areas == {AreaOrder[k] : k \in 1..Len(AreaOrder)}
FOAM_KEYWORD_MAP ==
    [reentry |-> {"reentry"}, fatherhood |-> {"paternity"},
     evaluation |-> {"outcomes"}]

\* the requirement texts tried: a header word, then the words of a subset of
\* CwVocab in CwVocab order, separated by blanks
CwVocab == <<"reentry", "paternity", "outcomes">>
RECURSIVE WordsToText(_, _)
WordsToText(S, k) ==
    IF k > Len(CwVocab) THEN <<>>
    ELSE LET rest == WordsToText(S, k + 1)
         IN IF CwVocab[k] \notin S THEN rest
            ELSE IF rest = <<>> THEN <<CwVocab[k]>>
            ELSE <<CwVocab[k], SP>> \o rest
RfpTexts ==
    {IF S = {} THEN <<"need">> ELSE <<"need", SP>> \o WordsToText(S, 1) :
        S \in SUBSET {CwVocab[k] : k \in 1..Len(CwVocab)}}

\* "x in text": the word x occurs in the text
Occurs(x, t) == \E j \in 1..Len(t) : t[j] = x
\* set(text.lower().split())
WordSet(t) == {t[j] : j \in 1..Len(t)} \ Whitespace

\* a boilerplate dict {"name", "content", "tags"}; has_content is whether the
\* "content" key is present
Boilerplate(name, content, tags, has_content) ==
    [name |-> name, content |-> content, tags |-> tags,
     has_content |-> has_content]

\* _default_boilerplate(): area -> {"name", "content", "tags"}; there is no
\* entry for the keyword area "evaluation".  Each entry is kept as the
\* sequence of its dict values, "name" first.
DefaultBoilerplate ==
    [a \in {"reentry", "fatherhood"} |->
        [kind |-> "dict",
         first |-> IF a = "reentry"
                   THEN <<"louisiana", SP, "barracks", SP, "program">>
                   ELSE <<"responsible", SP, "fatherhood", SP, "classes">>]]

\* a caller's corpus with one area whose value is a plain string
CustomBoilerplate ==
    [a \in {"evaluation"} |->
        [kind |-> "str", first |-> <<"outcomes", SP, "metrics", SP, "data">>]]

\* the boilerplate_sections a caller may pass to generate_crosswalk: one
\* complete section and one without the "content" key
CallerSections ==
    << [area |-> "evaluation", tags |-> {"outcomes"},
        bp |-> Boilerplate("Evaluation", <<"outcomes", SP, "data">>, {"outcomes"}, TRUE)],
       [area |-> "other", tags |-> {"fatherhood"},
        bp |-> Boilerplate("Fatherhood", <<>>, {"fatherhood"}, FALSE)] >>

NoBoilerplate == Boilerplate("", <<>>, {}, FALSE)

\* _identify_matching_areas: the areas, in table order, one of whose keywords
\* occurs in the content
IdentifyMatchingAreas(content) ==
    SelectSeq(AreaOrder,
              LAMBDA a : \E kw \in FOAM_KEYWORD_MAP[a] : Occurs(kw, content))

\* _get_boilerplate_for_area: <<found, boilerplate>>
GetBoilerplateForArea(foam_area, bps) ==
    LET hit(k) == bps[k].area = foam_area \/ foam_area \in bps[k].tags
    IN IF \E k \in 1..Len(bps) : hit(k)
       THEN <<TRUE, bps[CHOOSE k \in 1..Len(bps) :
                        hit(k) /\ \A j \in 1..(k-1) : ~hit(j)].bp>>
       ELSE IF foam_area \in DOMAIN boilerplate_data
                 /\ boilerplate_data[foam_area].first # <<>>
       THEN <<TRUE, Boilerplate(foam_area, boilerplate_data[foam_area].first,
                                {foam_area}, TRUE)>>
       ELSE <<FALSE, NoBoilerplate>>

\* _simple_similarity: Jaccard overlap of the two word sets
SimpleSimilarity(text1, text2) ==
    LET tokens1 == WordSet(text1)
        tokens2 == WordSet(text2)
    IN IF tokens1 = {} \/ tokens2 = {} THEN 0
       ELSE (Scale * Cardinality(tokens1 \cap tokens2))
                \div Cardinality(tokens1 \cup tokens2)

\* _match_tags: the fraction of the tags that occur in the text
MatchTags(rfp_text, boilerplate_tags) ==
    IF boilerplate_tags = {} THEN 0
    ELSE (Scale * Cardinality({t \in boilerplate_tags : Occurs(t, rfp_text)}))
            \div Cardinality(boilerplate_tags)

\* what the TF-IDF path may give for one pair of texts: a cosine similarity,
\* or an exception (then the token overlap is used instead); without a
\* fitted vectorizer the path is not taken
TransformFails == 0 - 1
CosineChoices ==
    IF ~use_ml \/ vectorizer = None THEN {TransformFails}
    ELSE {0, Scale, TransformFails}

\* _compute_similarity, cosine being the outcome of the TF-IDF path
ComputeSimilarity(rfp_text, boilerplate_text, cosine) ==
    IF ~use_ml \/ vectorizer = None THEN SimpleSimilarity(rfp_text, boilerplate_text)
    ELSE IF cosine = TransformFails THEN SimpleSimilarity(rfp_text, boilerplate_text)
    ELSE cosine

\* the CrosswalkResult _match_section builds for one area
CrosswalkResult(rfp_section, foam_area, boilerplate, cosine) ==
    LET sim == ComputeSimilarity(rfp_section.content, boilerplate.content, cosine)
        tag == MatchTags(rfp_section.content, boilerplate.tags)
        a   == AlignSection(sim, tag, rfp_section.scoring_weight)
    IN [rfp_section     |-> rfp_section.name,
        foam_strength   |-> foam_area,
        boilerplate_section |-> boilerplate.name,
        alignment_score |-> a.alignment_score,
        alignment_level |-> a.alignment_level,
        gap_flag        |-> a.gap_flag,
        risk_level      |-> a.risk_level,
        confidence      |-> IF use_ml THEN sim ELSE tag]

RECURSIVE MatchAreas(_, _, _, _)
\* the loop of _match_section over the matching areas
MatchAreas(rfp_section, areas, bps, cosine) ==
    IF Len(areas) = 0 THEN <<>>
    ELSE LET b == GetBoilerplateForArea(Head(areas), bps)
             rest == MatchAreas(rfp_section, Tail(areas), bps, cosine)
         IN IF b[1]
            THEN <<CrosswalkResult(rfp_section, Head(areas), b[2], cosine[Head(areas)])>>
                     \o rest
            ELSE rest

\* _match_section raises (KeyError) when a boilerplate it uses has no content
MatchRaises(rfp_section, bps) ==
    LET areas == IdentifyMatchingAreas(rfp_section.content)
    IN \E k \in 1..Len(areas) :
          LET b == GetBoilerplateForArea(areas[k], bps)
          IN b[1] /\ ~b[2].has_content

\* _match_section(rfp_section, boilerplate_sections)
MatchSection(rfp_section, bps, cosine) ==
    IF MatchRaises(rfp_section, bps)
    THEN [status |-> "raised", results |-> <<>>]
    ELSE [status |-> "returned",
          results |-> MatchAreas(rfp_section,
                                 IdentifyMatchingAreas(rfp_section.content),
                                 bps, cosine)]

Pending == [status |-> "pending", results |-> <<>>]

RECURSIVE Gather(_)
\* lines 174-178: the results of the threads that returned, in task order
Gather(srs) ==
    IF Len(srs) = 0 THEN <<>>
    ELSE (IF Head(srs).status = "returned" THEN Head(srs).results ELSE <<>>)
            \o Gather(Tail(srs))

\* the sections a parsed RFP may hold
RfpSections ==
    {[name |-> "need_statement", content |-> c, word_limit |-> NoneNum,
      scoring_weight |-> w] : c \in RfpTexts, w \in {NoneNum, (4 * Scale) \div 5}}
BoundedSectionLists == UNION {[1..n -> RfpSections] : n \in 0..MaxSections}

\* CrosswalkEngine.__init__(boilerplate_data, use_ml) with or without
\* scikit-learn, _initialize_vectorizer included, then the start of a
\* generate_crosswalk call: one task per section
CrosswalkInit ==
    /\ ClassifyIdle /\ ScoreIdle /\ GapIdle /\ PlanIdle /\ ParseIdle /\ LimitsIdle
    /\ \E arg \in {<<>>, DefaultBoilerplate, CustomBoilerplate},
          use_ml_arg \in BOOLEAN, sklearn \in BOOLEAN, fit_ok \in BOOLEAN :
         /\ boilerplate_data = IF arg = <<>> THEN DefaultBoilerplate ELSE arg
         /\ use_ml = (use_ml_arg /\ sklearn /\ fit_ok)
         /\ vectorizer = IF use_ml_arg /\ sklearn
                         THEN (IF fit_ok THEN "fitted" ELSE "unfitted")
                         ELSE None
    /\ rfp_sections \in BoundedSectionLists
    /\ boilerplate_sections \in {<<>>, CallerSections}
    /\ section_results = [k \in 1..Len(rfp_sections) |-> Pending]
    /\ results = <<>>
    /\ cw_pc = "gather"

\* the matching areas of section k for which a boilerplate is found
AreasWithBoilerplate(k) ==
    SelectSeq(IdentifyMatchingAreas(rfp_sections[k].content),
              LAMBDA a : GetBoilerplateForArea(a, boilerplate_sections)[1])

\* a _match_section thread that turns use_ml off when a transform fails, as
\* _initialize_vectorizer does when the fit fails
MatchSectionThread_DisablesMl(k) ==
    /\ cw_pc = "gather"
    /\ section_results[k].status = "pending"
    /\ \E cosine \in [{AreasWithBoilerplate(k)[j] :
                          j \in 1..Len(AreasWithBoilerplate(k))} -> CosineChoices] :
         /\ section_results' =
               [section_results EXCEPT
                  ![k] = MatchSection(rfp_sections[k], boilerplate_sections, cosine)]
         /\ use_ml' = (use_ml /\ \A a \in DOMAIN cosine : cosine[a] # TransformFails)
    /\ UNCHANGED <<rfp_sections, boilerplate_sections, results, cw_pc,
                   boilerplate_data, vectorizer, not_crosswalk>>

\* one asyncio.to_thread(self._match_section, ...) task runs to its end; the
\* TF-IDF path gives an outcome for each boilerplate the section is scored on
MatchSectionThread(k) ==
    /\ cw_pc = "gather"
    /\ section_results[k].status = "pending"
    /\ \E cosine \in [{AreasWithBoilerplate(k)[j] :
                          j \in 1..Len(AreasWithBoilerplate(k))} -> CosineChoices] :
         section_results' =
             [section_results EXCEPT
                 ![k] = MatchSection(rfp_sections[k], boilerplate_sections, cosine)]
    /\ UNCHANGED <<rfp_sections, boilerplate_sections, results, cw_pc,
                   vars_engine, not_crosswalk>>

\* a return that stops extending at the first task that raised
GenerateCrosswalkReturn_StopsAtRaised ==
    /\ cw_pc = "gather"
    /\ \A k \in 1..Len(section_results) : section_results[k].status # "pending"
    /\ LET ok == {k \in 0..Len(section_results) :
                    \A j \in 1..k : section_results[j].status = "returned"}
           upto == CHOOSE k \in ok : \A j \in ok : j <= k
       IN results' = Gather(SubSeq(section_results, 1, upto))
    /\ cw_pc' = "done"
    /\ UNCHANGED <<rfp_sections, boilerplate_sections, section_results,
                   vars_engine, not_crosswalk>>

\* asyncio.gather has every result: extend and return
GenerateCrosswalkReturn ==
    /\ cw_pc = "gather"
    /\ \A k \in 1..Len(section_results) : section_results[k].status # "pending"
    /\ results' = Gather(section_results)
    /\ cw_pc' = "done"
    /\ UNCHANGED <<rfp_sections, boilerplate_sections, section_results,
                   vars_engine, not_crosswalk>>

CrosswalkNext ==
    \/ \E k \in 1..Len(rfp_sections) : MatchSectionThread(k)
    \/ GenerateCrosswalkReturn

SpecCrosswalk == CrosswalkInit /\ [][CrosswalkNext]_vars

\* ------------------------------------------------------------------------
\* GapAnalyzerService: overall risk and score of a findings list
\* ------------------------------------------------------------------------
MaxFindings == 8

Severities == {"green", "yellow", "red"}

\* a GapFinding; a recommendation text is kept as the tuple of its parts
GapFinding(category, severity, priority, recommendation, affected_section) ==
    [category |-> category, severity |-> severity, priority |-> priority,
     recommendation |-> recommendation, affected_section |-> affected_section]

SeverityCount(fs, severity) ==
    Cardinality({k \in 1..Len(fs) : fs[k].severity = severity})

Max(a, b) == IF a >= b THEN a ELSE b
Min(a, b) == IF a <= b THEN a ELSE b

\* seq[:n]
FirstN(seq, n) == SubSeq(seq, 1, Min(n, Len(seq)))

\* a score that is not clamped at 0
CalculateOverallRisk_NoClamp(fs) ==
    LET red_count    == SeverityCount(fs, "red")
        yellow_count == SeverityCount(fs, "yellow")
        green_count  == SeverityCount(fs, "green")
    IN IF Len(fs) = 0 THEN [overall_risk |-> "green", overall_score |-> 100]
       ELSE [overall_risk |->
                IF red_count >= 3 THEN "red"
                ELSE IF red_count >= 1 \/ yellow_count >= 5 THEN "yellow"
                ELSE "green",
             overall_score |->
                ((100 - (red_count * 15)) - (yellow_count * 5)) - (green_count * 1)]

\* a yellow level that needs more than 5 yellow findings
CalculateOverallRisk_SixYellow(fs) ==
    LET red_count    == SeverityCount(fs, "red")
        yellow_count == SeverityCount(fs, "yellow")
        green_count  == SeverityCount(fs, "green")
    IN IF Len(fs) = 0 THEN [overall_risk |-> "green", overall_score |-> 100]
       ELSE [overall_risk |->
                IF red_count >= 3 THEN "red"
                ELSE IF red_count >= 1 \/ yellow_count > 5 THEN "yellow"
                ELSE "green",
             overall_score |->
                Max(0, Min(100, ((100 - (red_count * 15)) - (yellow_count * 5))
                                    - (green_count * 1)))]

\* _calculate_overall_risk(findings) -> (risk_level, score)
CalculateOverallRisk(fs) ==
    LET red_count    == SeverityCount(fs, "red")
        yellow_count == SeverityCount(fs, "yellow")
        green_count  == SeverityCount(fs, "green")
    IN IF Len(fs) = 0 THEN [overall_risk |-> "green", overall_score |-> 100]
       ELSE [overall_risk |->
                IF red_count >= 3 THEN "red"
                ELSE IF red_count >= 1 \/ yellow_count >= 5 THEN "yellow"
                ELSE "green",
             overall_score |->
                Max(0, Min(100, ((100 - (red_count * 15)) - (yellow_count * 5))
                                    - (green_count * 1)))]

\* the recommendation _build_findings gives a finding of each kind
Recommendation(kind, foam_area) ==
    IF kind = "match" THEN <<"Explore connections to", foam_area>>
    ELSE <<kind>>

\* a categorisation that also files the weak results as match gaps
CategorizeGaps_WeakIsMatchGap(crosswalk_results) ==
    [alignment |-> SelectSeq(crosswalk_results, LAMBDA r : r.gap_flag),
     match |-> SelectSeq(crosswalk_results,
                         LAMBDA r : r.alignment_level \in {"none", "weak"})]

\* _categorize_gaps: a result with gap_flag is an alignment gap, a result of
\* level none a match gap
CategorizeGaps(crosswalk_results) ==
    [alignment |-> SelectSeq(crosswalk_results, LAMBDA r : r.gap_flag),
     match |-> SelectSeq(crosswalk_results,
                         LAMBDA r : r.alignment_level = "none")]

\* _identify_weak_alignments: the partial and weak results, at most 10
IdentifyWeakAlignments(crosswalk_results) ==
    FirstN(SelectSeq(crosswalk_results,
                     LAMBDA r : r.alignment_level \in {"partial", "weak"}), 10)

\* findings that keep every missing metric
BuildFindings_MetricsUncapped(gaps, metrics, partnerships, evaluation, weak, outdated) ==
    LET kinds ==
            [k \in 1..Len(gaps.alignment) |->
                <<"alignment", "red", Recommendation("alignment", ""),
                  gaps.alignment[k].rfp_section>>]
         \o [k \in 1..Len(gaps.match) |->
                <<"match", "yellow",
                  Recommendation("match", gaps.match[k].foam_strength),
                  gaps.match[k].rfp_section>>]
         \o [k \in 1..Len(metrics) |->
                <<"metrics", "yellow", Recommendation("metrics", ""), None>>]
         \o [k \in 1..Len(FirstN(partnerships, 3)) |->
                <<"partnerships", "yellow", Recommendation("partnerships", ""),
                  None>>]
         \o [k \in 1..Len(FirstN(evaluation, 3)) |->
                <<"evaluation", "yellow", Recommendation("evaluation", ""),
                  "Evaluation Plan">>]
         \o [k \in 1..Len(FirstN(weak, 3)) |->
                <<"alignment", "yellow", Recommendation("weak alignment", ""),
                  None>>]
         \o [k \in 1..Len(outdated) |->
                <<"data", "yellow", Recommendation("data", ""), None>>]
    IN [k \in 1..Len(kinds) |->
           GapFinding(kinds[k][1], kinds[k][2], k, kinds[k][3], kinds[k][4])]

\* _build_findings(gap_categories, missing_metrics, missing_partnerships,
\* evaluation_weaknesses, weak_alignments, outdated_data): the findings in
\* the order of the seven loops; priority starts at 1 and grows by one with
\* each finding appended
BuildFindings(gaps, metrics, partnerships, evaluation, weak, outdated) ==
    LET kinds ==
            [k \in 1..Len(gaps.alignment) |->
                <<"alignment", "red", Recommendation("alignment", ""),
                  gaps.alignment[k].rfp_section>>]
         \o [k \in 1..Len(gaps.match) |->
                <<"match", "yellow",
                  Recommendation("match", gaps.match[k].foam_strength),
                  gaps.match[k].rfp_section>>]
         \o [k \in 1..Len(FirstN(metrics, 3)) |->
                <<"metrics", "yellow", Recommendation("metrics", ""), None>>]
         \o [k \in 1..Len(FirstN(partnerships, 3)) |->
                <<"partnerships", "yellow", Recommendation("partnerships", ""),
                  None>>]
         \o [k \in 1..Len(FirstN(evaluation, 3)) |->
                <<"evaluation", "yellow", Recommendation("evaluation", ""),
                  "Evaluation Plan">>]
         \o [k \in 1..Len(FirstN(weak, 3)) |->
                <<"alignment", "yellow", Recommendation("weak alignment", ""),
                  None>>]
         \o [k \in 1..Len(outdated) |->
                <<"data", "yellow", Recommendation("data", ""), None>>]
    IN [k \in 1..Len(kinds) |->
           GapFinding(kinds[k][1], kinds[k][2], k, kinds[k][3], kinds[k][4])]

\* the sort key (f.priority, f.severity.value): strings compare by alphabet
SeverityRank(severity) ==
    CASE severity = "green" -> 1 [] severity = "red" -> 2 [] severity = "yellow" -> 3
FindingBefore(f, g) ==
    \/ f.priority < g.priority
    \/ f.priority = g.priority /\ SeverityRank(f.severity) < SeverityRank(g.severity)

RECURSIVE SortFindings(_)
\* sorted(findings, key=...): a stable sort
SortFindings(fs) ==
    IF Len(fs) <= 1 THEN fs
    ELSE LET rest == SortFindings(SubSeq(fs, 1, Len(fs) - 1))
             last == fs[Len(fs)]
             pos == Cardinality({k \in 1..Len(rest) : ~FindingBefore(last, rest[k])})
         IN SubSeq(rest, 1, pos) \o <<last>> \o SubSeq(rest, pos + 1, Len(rest))

RECURSIVE DistinctRecommendations(_, _)
\* the loop of lines 583-586: the recommendations, each kept once
DistinctRecommendations(fs, recommendations) ==
    IF Len(fs) = 0 THEN recommendations
    ELSE DistinctRecommendations(
             Tail(fs),
             IF \E k \in 1..Len(recommendations) :
                    recommendations[k] = Head(fs).recommendation
             THEN recommendations
             ELSE Append(recommendations, Head(fs).recommendation))

\* list.insert(index, x)
InsertAt(seq, index, x) ==
    SubSeq(seq, 1, Min(index, Len(seq))) \o <<x>>
        \o SubSeq(seq, Min(index, Len(seq)) + 1, Len(seq))

Critical == <<"CRITICAL: Address red-level gaps before submission">>
HighPriority ==
    <<"HIGH PRIORITY: Significant strengthening needed in multiple areas">>

\* _generate_top_recommendations(findings)
GenerateTopRecommendations(fs) ==
    LET top == DistinctRecommendations(FirstN(SortFindings(fs), 5), <<>>)
        with_red == IF SeverityCount(fs, "red") > 0
                    THEN InsertAt(top, 0, Critical) ELSE top
        with_yellow == IF SeverityCount(fs, "yellow") > 3
                       THEN InsertAt(with_red, 1, HighPriority) ELSE with_red
    IN FirstN(with_yellow, 8)

\* _calculate_overall_risk on the empty findings list
GapInit ==
    /\ ClassifyIdle /\ ScoreIdle /\ CrosswalkIdle /\ PlanIdle /\ ParseIdle /\ LimitsIdle
    /\ findings = <<>>
    /\ overall_risk = CalculateOverallRisk(<<>>).overall_risk
    /\ overall_score = CalculateOverallRisk(<<>>).overall_score
    /\ top_recommendations = GenerateTopRecommendations(<<>>)

\* _calculate_overall_risk and _generate_top_recommendations on the list
\* with one more finding, numbered as _build_findings numbers them
AddFinding ==
    /\ Len(findings) < MaxFindings
    /\ \E severity \in Severities :
         LET category == IF severity = "red" THEN "alignment" ELSE "match"
             fs == Append(findings,
                          GapFinding(category, severity, Len(findings) + 1,
                                     Recommendation(category, "reentry"),
                                     "need_statement"))
         IN /\ findings' = fs
            /\ overall_risk' = CalculateOverallRisk(fs).overall_risk
            /\ overall_score' = CalculateOverallRisk(fs).overall_score
            /\ top_recommendations' = GenerateTopRecommendations(fs)
    /\ UNCHANGED not_gap

GapNext == AddFinding

SpecGap == GapInit /\ [][GapNext]_vars

\* "evaluation" in section.name.lower(), for the canonical labels
IsEvaluationSection(section) == section.name = "evaluation_plan"

\* a list of n entries of one kind
Entries(kind, n) == [k \in 1..n |-> kind]

\* The four text checks look for phrases the texts of the model do not keep;
\* each returns one of the lists it can return.
\* _check_metrics: no metric missing, one, or ten (the cut of line 241)
MissingMetricsOutcomes == {Entries("metric", n) : n \in {0, 1, 10}}
\* _check_partnerships: no gap, one, or all six
MissingPartnershipsOutcomes == {Entries("partnership", n) : n \in {0, 1, 6}}
\* _check_evaluation: without an evaluation section the one entry of line
\* 305, with one the elements it misses
EvaluationOutcomes(rfp_secs) ==
    IF \E k \in 1..Len(rfp_secs) : IsEvaluationSection(rfp_secs[k])
    THEN {Entries("Missing", n) : n \in {0, 6}}
    ELSE {<<"No dedicated evaluation plan section">>}
\* _check_outdated_data: nothing, or both issues
OutdatedDataOutcomes == {Entries("outdated", n) : n \in {0, 2}}

\* GapAnalyzerService.analyze(crosswalk_results, parsed_rfp): the six checks
\* (none of them writes anything but its own list), the findings, the
\* overall risk and the recommendations
Analyze ==
    /\ cw_pc = "done"
    /\ overall_risk = None
    /\ \E missing_metrics \in MissingMetricsOutcomes,
          missing_partnerships \in MissingPartnershipsOutcomes,
          evaluation_weaknesses \in EvaluationOutcomes(rfp_sections),
          outdated_data \in OutdatedDataOutcomes :
         LET fs == BuildFindings(CategorizeGaps(results), missing_metrics,
                                 missing_partnerships, evaluation_weaknesses,
                                 IdentifyWeakAlignments(results), outdated_data)
         IN /\ findings' = fs
            /\ overall_risk' = CalculateOverallRisk(fs).overall_risk
            /\ overall_score' = CalculateOverallRisk(fs).overall_score
            /\ top_recommendations' = GenerateTopRecommendations(fs)
    /\ UNCHANGED not_gap

\* ------------------------------------------------------------------------
\* PlanGeneratorService.  Names and titles are sequences of lower-case
\* words ("need_statement" is one word, "Need Statement / Problem
\* Description" five), "a in b" is "a occurs in b as a run of words".
\* ------------------------------------------------------------------------
MaxPlanSections == 2

IsInfix(a, b) ==
    \E k \in 0..(Len(b) - Len(a)) : \A j \in 1..Len(a) : b[k + j] = a[j]

\* STANDARD_SECTIONS: (key, title, weight in hundredths)
STANDARD_SECTIONS ==
    << [key |-> "need_statement",
        title |-> <<"need", "statement", "/", "problem", "description">>,
        weight |-> 15],
       [key |-> "organizational_capacity",
        title |-> <<"organizational", "capacity">>, weight |-> 15],
       [key |-> "project_design",
        title |-> <<"project", "design", "/", "program", "description">>,
        weight |-> 25],
       [key |-> "evaluation_plan",
        title |-> <<"evaluation", "plan">>, weight |-> 15],
       [key |-> "budget", title |-> <<"budget", "narrative">>, weight |-> 15],
       [key |-> "sustainability",
        title |-> <<"sustainability", "plan">>, weight |-> 10],
       [key |-> "timeline",
        title |-> <<"timeline", "/", "work", "plan">>, weight |-> 5] >>

\* the nine labels of SECTION_PATTERNS
CanonicalLabels ==
    {"need_statement", "organizational_capacity", "project_design",
     "evaluation_plan", "budget", "sustainability", "dei_equity", "timeline",
     "attachments"}

\* "x or 500" and "if x": None and 0 are falsy
Truthy(x) == x # NoneNum /\ x # 0

\* _estimate_hours: int(word_count / 200 * 1.5) or 1
EstimateHours(word_count) ==
    LET h == (word_count * 3) \div 400 IN IF h = 0 THEN 1 ELSE h

\* the PlanSection _create_sections builds for one parsed section
CreateSection(section, order, crosswalk_results) ==
    LET section_name == section.name
        std(k) == STANDARD_SECTIONS[k]
        hit(k) == IsInfix(<<std(k).key>>, <<section_name>>)
                    \/ IsInfix(<<section_name>>, <<std(k).key>>)
        matched == \E k \in 1..Len(STANDARD_SECTIONS) : hit(k)
        m == CHOOSE k \in 1..Len(STANDARD_SECTIONS) :
                 hit(k) /\ \A j \in 1..(k-1) : ~hit(j)
        related_results ==
            SelectSeq(crosswalk_results, LAMBDA r : r.rfp_section = section_name)
        word_limit == IF Truthy(section.word_limit) THEN section.word_limit ELSE 500
    IN [title |-> IF matched THEN std(m).title ELSE <<section.name>>,
        order |-> order,
        word_count_target |-> word_limit,
        scoring_weight |-> IF matched THEN std(m).weight ELSE 10,
        risk_level |-> IF related_results # <<>>
                       THEN related_results[1].risk_level ELSE "yellow",
        alignment_status |-> IF related_results # <<>>
                             THEN related_results[1].alignment_level ELSE "unknown",
        suggested_content_blocks |-> <<>>,
        estimated_hours |-> EstimateHours(word_limit)]

\* _create_sections(parsed_rfp, crosswalk_results)
CreateSections(rfp_secs, crosswalk_results) ==
    [k \in 1..Len(rfp_secs) |-> CreateSection(rfp_secs[k], k, crosswalk_results)]

RECURSIVE TotalWords(_)
\* sum(s.word_limit or 500 for s in parsed_rfp.sections)
TotalWords(rfp_secs) ==
    IF Len(rfp_secs) = 0 THEN 0
    ELSE (IF Truthy(Head(rfp_secs).word_limit) THEN Head(rfp_secs).word_limit
          ELSE 500) + TotalWords(Tail(rfp_secs))

\* _allocate_word_counts(sections, parsed_rfp): the PlanSections afterwards
AllocateWordCounts(secs, rfp_secs) ==
    LET total_words == TotalWords(rfp_secs)
        found(k, j) == IsInfix(<<rfp_secs[j].name>>, secs[k].title)
        has(k) == \E j \in 1..Len(rfp_secs) : found(k, j)
        first(k) == CHOOSE j \in 1..Len(rfp_secs) :
                        found(k, j) /\ \A q \in 1..(j-1) : ~found(k, q)
        target(k) ==
            IF has(k) /\ Truthy(rfp_secs[first(k)].word_limit)
            THEN rfp_secs[first(k)].word_limit
            ELSE IF Truthy(secs[k].scoring_weight)
                 THEN (total_words * secs[k].scoring_weight) \div 100
            ELSE total_words \div Len(secs)
    IN [k \in 1..Len(secs) |-> [secs[k] EXCEPT !.word_count_target = target(k)]]

\* the fixed bullets of lines 302-330, chosen by the first of the six words
\* that occurs in the title
TypeBullets(title) ==
    IF Occurs("need", title)
    THEN << <<"Open with organizational target population context">>,
            <<"Reference East Baton Rouge Parish demographics">> >>
    ELSE IF Occurs("organizational", title)
    THEN << <<"Lead with 501(c)(3) status and nonprofit history">>,
            <<"Highlight relevant program experience and outcomes">>,
            <<"Include staff qualifications and organizational structure">> >>
    ELSE IF Occurs("design", title)
    THEN << <<"Describe three-part organizational model">>,
            <<"Include evidence-based practice references">>,
            <<"Detail target population and service delivery approach">> >>
    ELSE IF Occurs("evaluation", title)
    THEN << <<"Present logic model connecting activities to outcomes">>,
            <<"Define specific, measurable outcomes">>,
            <<"Describe EmpowerDB/nFORM data collection and reporting">> >>
    ELSE IF Occurs("budget", title)
    THEN << <<"Connect all line items to program design and outcomes">>,
            <<"Justify staffing, training, and capacity building costs">>,
            <<"Show cost-effectiveness analysis if RFP requires">> >>
    ELSE IF Occurs("sustainability", title)
    THEN << <<"Detail diversified funding strategy beyond grant period">>,
            <<"Show evidence of community investment and partnerships">>,
            <<"Connect to organizational strategic plan">> >>
    ELSE <<>>

\* the suggestion of lines 286-300 for one related result
ResultSuggestion(result) ==
    IF result.alignment_level = "strong"
    THEN <<"Use boilerplate from", result.boilerplate_section>>
    ELSE IF result.alignment_level = "partial"
    THEN <<"Adapt boilerplate from", result.boilerplate_section>>
    ELSE <<"Develop custom narrative emphasizing">>

\* _suggest_content(section, crosswalk_results): without a related result
\* the one suggestion of lines 276-282 is returned at once
SuggestContent(section, crosswalk_results) ==
    LET related == SelectSeq(crosswalk_results,
                             LAMBDA r : IsInfix(<<r.rfp_section>>, section.title))
    IN IF related = <<>>
       THEN IF section.alignment_status = "strong"
            THEN << <<"Use boilerplate for">> \o section.title >>
            ELSE IF section.alignment_status = "partial"
            THEN << <<"Adapt boilerplate for">> \o section.title >>
            ELSE << <<"Develop custom content for">> \o section.title >>
       ELSE [k \in 1..Len(FirstN(related, 3)) |-> ResultSuggestion(related[k])]
                \o TypeBullets(section.title)

\* lines 117-119: every PlanSection gets its suggestions
AddSuggestions(secs, crosswalk_results) ==
    [k \in 1..Len(secs) |->
        [secs[k] EXCEPT
            !.suggested_content_blocks = SuggestContent(secs[k], crosswalk_results)]]

\* a ComplianceItem
ComplianceItem(requirement, status, section) ==
    [requirement |-> requirement, status |-> status, section |-> section]

\* the status _build_compliance_checklist gives a parsed section: that of
\* the first related result, "met" without one
SectionStatus(section, crosswalk_results) ==
    LET related == SelectSeq(crosswalk_results,
                             LAMBDA r : r.rfp_section = section.name)
    IN IF related = <<>> THEN "met"
       ELSE IF related[1].alignment_level = "strong" THEN "met"
       ELSE IF related[1].alignment_level = "partial" THEN "partial"
       ELSE "unmet"

\* a field of parsed_rfp that is a list (a plan generated from sections
\* alone has none of them)
PlanField(f) == IF Len(parsed) = 0 THEN <<>> ELSE parsed[1][f]

\* _build_compliance_checklist(parsed_rfp, crosswalk_results): one item per
\* parsed section, then the formatting, eligibility, attachment and scoring
\* items
BuildComplianceChecklist(rfp_secs, crosswalk_results) ==
    [k \in 1..Len(rfp_secs) |->
        ComplianceItem(<<"Complete", rfp_secs[k].name>>,
                       SectionStatus(rfp_secs[k], crosswalk_results),
                       rfp_secs[k].name)]
    \o [k \in 1..Len(FirstN(PlanField("formatting_requirements"), 5)) |->
           ComplianceItem(<<"Formatting", PlanField("formatting_requirements")[k]>>,
                          "pending", None)]
    \o [k \in 1..Len(FirstN(PlanField("eligibility"), 3)) |->
           ComplianceItem(<<"Eligibility", PlanField("eligibility")[k]>>,
                          "met", None)]
    \o [k \in 1..Len(FirstN(PlanField("required_attachments"), 5)) |->
           ComplianceItem(<<"Attachment", PlanField("required_attachments")[k]>>,
                          "pending", None)]
    \o [k \in 1..Len(FirstN(PlanField("scoring_criteria"), 5)) |->
           ComplianceItem(<<"Scoring", PlanField("scoring_criteria")[k].section>>,
                          "pending", None)]

RECURSIVE SumField(_, _)
SumField(secs, f) ==
    IF Len(secs) = 0 THEN 0 ELSE Head(secs)[f] + SumField(Tail(secs), f)

\* the parsed sections and crosswalk results a plan is generated from; every
\* section with a name has the word limit the parser found for that name
PlanRfpSections ==
    {[name |-> n, content |-> <<"need">>, word_limit |-> w,
      scoring_weight |-> NoneNum] : n \in CanonicalLabels, w \in {NoneNum, 300}}
PlanSectionLists ==
    {ss \in UNION {[1..n -> PlanRfpSections] : n \in 0..MaxPlanSections} :
        \A j, k \in 1..Len(ss) :
            ss[j].name = ss[k].name => ss[j].word_limit = ss[k].word_limit}
PlanInputResult(name, sim) ==
    LET a == AlignSection(sim, Scale, NoneNum)
    IN [rfp_section |-> name, foam_strength |-> "reentry",
        boilerplate_section |-> "reentry",
        alignment_score |-> a.alignment_score,
        alignment_level |-> a.alignment_level,
        gap_flag |-> a.gap_flag, risk_level |-> a.risk_level,
        confidence |-> sim]

\* the start of generate_plan on a parsed RFP and its crosswalk results
PlanInit ==
    /\ ClassifyIdle /\ ScoreIdle /\ GapIdle /\ ParseIdle /\ LimitsIdle
    /\ boilerplate_data = <<>> /\ use_ml = FALSE /\ vectorizer = None
    /\ rfp_sections \in PlanSectionLists
    /\ boilerplate_sections = <<>>
    /\ section_results = <<>>
    /\ results \in {<<>>} \cup
                   {<<PlanInputResult(rfp_sections[1].name, sim)>> :
                       sim \in IF Len(rfp_sections) > 0 THEN {0, Scale} ELSE {}}
    /\ cw_pc = "done"
    /\ plan_sections = <<>>
    /\ plan = <<>>
    /\ plan_pc = "tasks"

\* parsed_rfp.scoring_criteria (a plan generated from sections alone has
\* none)
PlanCriteria == IF Len(parsed) = 0 THEN <<>> ELSE parsed[1].scoring_criteria

\* _build_scoring_summary: the loop of lines 483-488 runs once for each
\* section that has criteria and divides by len([])
BuildScoringSummaryRaises(criteria) == Len(criteria) > 0
\* summary["criteria_by_section"]: section -> its criteria, in their order
CriteriaBySection(criteria) ==
    [section \in {criteria[k].section : k \in 1..Len(criteria)} |->
        SelectSeq(criteria, LAMBDA c : c.section = section)]
\* section_results[3], or {} when the task raised: the keys of the dict and
\* the values under two of them (of no meaning without their key)
ScoringSummary(criteria) ==
    IF BuildScoringSummaryRaises(criteria)
    THEN [keys |-> <<>>, total_points_available |-> 0,
          criteria_by_section |-> <<>>]
    ELSE [keys |-> <<"total_points_available", "criteria_by_section",
                     "alignment_by_criteria", "scoring_recommendations">>,
          total_points_available |-> SumField(criteria, "max_points"),
          criteria_by_section |-> CriteriaBySection(criteria)]

\* an allocation that takes the even share before it looks at the sections
AllocateRaises_EvenShareFirst(secs, rfp_secs) == Len(secs) = 0

\* _allocate_word_counts divides by len(sections) for a PlanSection without
\* limit and without weight
AllocateRaises(secs, rfp_secs) ==
    \E k \in 1..Len(secs) :
        /\ ~\E j \in 1..Len(rfp_secs) :
               /\ IsInfix(<<rfp_secs[j].name>>, secs[k].title)
               /\ \A q \in 1..(j-1) : ~IsInfix(<<rfp_secs[q].name>>, secs[k].title)
               /\ Truthy(rfp_secs[j].word_limit)
        /\ ~Truthy(secs[k].scoring_weight)
        /\ Len(secs) = 0

\* generate_plan(parsed_rfp, crosswalk_results, gap_analysis) is called on
\* what the three earlier stages returned
PlanStart ==
    /\ cw_pc = "done"
    /\ overall_risk # None
    /\ plan_pc = "idle"
    /\ plan_pc' = "tasks"
    /\ UNCHANGED <<plan_sections, plan, not_plan>>

\* a generate_plan that writes the allocated targets back into the parsed
\* sections
PlanReturn_WritesParsedSections ==
    /\ plan_pc = "allocate"
    /\ LET secs == AddSuggestions(AllocateWordCounts(plan_sections, rfp_sections),
                                  results)
       IN /\ plan_sections' = secs
          /\ rfp_sections' = [k \in 1..Len(rfp_sections) |->
                                 [rfp_sections[k] EXCEPT
                                     !.word_limit = secs[k].word_count_target]]
          /\ plan' = <<[total_sections |-> Len(secs),
                        sections |-> secs,
                        compliance_checklist |->
                            BuildComplianceChecklist(rfp_sections, results),
                        scoring_summary |-> ScoringSummary(PlanCriteria),
                        estimated_total_words |-> SumField(secs, "word_count_target"),
                        estimated_total_hours |-> SumField(secs, "estimated_hours")]>>
    /\ plan_pc' = "done"
    /\ UNCHANGED <<vars_classify, vars_score, vars_engine, boilerplate_sections,
                   section_results, results, cw_pc, vars_gap, vars_parse,
                   vars_limits>>

\* lines 98-109: the _create_sections task
PlanCreateSections ==
    /\ plan_pc = "tasks"
    /\ plan_sections' = CreateSections(rfp_sections, results)
    /\ plan_pc' = "allocate"
    /\ UNCHANGED <<plan, not_plan>>

\* lines 111-152: allocate the word counts, add the suggestions, total the
\* targets and hours, return the plan with what the tasks gave
PlanReturn ==
    /\ plan_pc = "allocate"
    /\ IF AllocateRaises(plan_sections, rfp_sections)
       THEN /\ plan_pc' = "raised"
            /\ UNCHANGED <<plan_sections, plan>>
       ELSE LET secs == AddSuggestions(
                            AllocateWordCounts(plan_sections, rfp_sections), results)
            IN /\ plan_sections' = secs
               /\ plan' = <<[total_sections |-> Len(secs),
                             sections |-> secs,
                             compliance_checklist |->
                                 BuildComplianceChecklist(rfp_sections, results),
                             scoring_summary |-> ScoringSummary(PlanCriteria),
                             estimated_total_words |->
                                 SumField(secs, "word_count_target"),
                             estimated_total_hours |->
                                 SumField(secs, "estimated_hours")]>>
               /\ plan_pc' = "done"
    /\ UNCHANGED not_plan

PlanNext == PlanCreateSections \/ PlanReturn

SpecPlan == PlanInit /\ [][PlanNext]_vars

\* ------------------------------------------------------------------------
\* RFPParserService.parse_document: text extraction and OCR fallback
\* ------------------------------------------------------------------------
\* the threshold of line 202
MinTextLen == 100

\* the declared types tried, and file_type.lower().strip(".")
DeclaredTypes == {"pdf", ".PDF", "docx", "txt"}
NormalizedType(t) == IF t = ".PDF" THEN "pdf" ELSE t
\* the filenames tried
Filenames == {"", "rfp.pdf"}

\* what an extractor (pdfplumber, python-docx, pytesseract) may do with the
\* bytes: raise, or return a text: empty, under the threshold (with and
\* without surrounding blanks), at the threshold
Raises == TextOfLength(0 - 1, 0 - 1)
TextsTried ==
    {EmptyText, TextOfLength(MinTextLen - 1, MinTextLen - 1),
     TextOfLength(MinTextLen + 1, MinTextLen - 1),
     TextOfLength(MinTextLen, MinTextLen)}
ExtractorOutcomes == {Raises} \cup TextsTried

\* the test of line 202 taken on the unstripped length
TooShort_Unstripped(t) == t.chars < MinTextLen

\* "not text or len(text.strip()) < 100"
TooShort(t) == t.chars = 0 \/ t.stripped < MinTextLen

\* RFPParserService(use_ocr) with or without pytesseract, then the start of a
\* parse_document call
ParseInit ==
    /\ ClassifyIdle /\ ScoreIdle /\ CrosswalkIdle /\ GapIdle /\ PlanIdle /\ LimitsIdle
    /\ \E use_ocr_arg \in BOOLEAN, pytesseract \in BOOLEAN :
         use_ocr = (use_ocr_arg /\ pytesseract)
    /\ file_type \in DeclaredTypes
    /\ filename = None
    /\ extracted = EmptyText
    /\ extraction_method = ""
    /\ field_results = NoFieldResults
    /\ parsed = <<>>
    /\ parse_pc = "extract"

\* lines 191-208: extract the text layer for the declared type and test it
\* against the threshold
ParseExtractText ==
    /\ parse_pc = "extract"
    /\ LET ft == NormalizedType(file_type)
       IN IF ft \notin {"pdf", "docx"}
          THEN /\ parse_pc' = "raised"
               /\ UNCHANGED <<extracted, extraction_method>>
          ELSE \E outcome \in ExtractorOutcomes :
                 IF outcome = Raises
                 THEN /\ parse_pc' = "raised"
                      /\ UNCHANGED <<extracted, extraction_method>>
                 ELSE /\ extracted' = outcome
                      /\ extraction_method' =
                             (IF ft = "pdf" THEN "pdfplumber" ELSE "python-docx")
                      /\ parse_pc' = IF ~TooShort(outcome) THEN "fields"
                                     ELSE IF use_ocr /\ ft = "pdf" THEN "ocr"
                                     ELSE "raised"
    /\ UNCHANGED <<use_ocr, file_type, filename, field_results, parsed, not_parse>>

\* lines 205-206: the text is whatever _ocr_fallback returns
ParseOcrFallback ==
    /\ parse_pc = "ocr"
    /\ \E outcome \in ExtractorOutcomes :
         IF outcome = Raises
         THEN /\ parse_pc' = "raised"
              /\ UNCHANGED <<extracted, extraction_method>>
         ELSE /\ extracted' = outcome
              /\ extraction_method' = "pytesseract_ocr"
              /\ parse_pc' = "fields"
    /\ UNCHANGED <<use_ocr, file_type, filename, field_results, parsed, not_parse>>

\* lines 213-223: the nine extractor tasks, in the order of the task list
Extractors ==
    <<"sections", "scoring_criteria", "word_limits", "eligibility",
      "deadline", "funding_amount", "formatting_requirements", "attachments",
      "title_and_funder">>

\* a classifier that gives every section it builds a scoring weight of 0.8
ClassifiedSection_Weighted(name, content) ==
    [name |-> name, content |-> content, word_limit |-> NoneNum,
     scoring_weight |-> (4 * Scale) \div 5]

\* an RFPSection as _classify_sections builds it: no limit, no weight
ClassifiedSection(name, content) ==
    [name |-> name, content |-> content, word_limit |-> NoneNum,
     scoring_weight |-> NoneNum]
ScoringCriterion(section, max_points) ==
    [section |-> section, max_points |-> max_points]

\* _extract_title_and_funder on a text with the title line and the funder
\* match given ("" when the text has none): 'title[:200] or "Untitled RFP",
\* funder[:100] or "Unknown Funder"'
ExtractTitleAndFunder(title, funder) ==
    <<IF title # "" THEN title ELSE "Untitled RFP",
      IF funder # "" THEN funder ELSE "Unknown Funder">>

\* what each extractor may return for the text (a dict is the set of its
\* items)
ExtractorOutputs(k) ==
    CASE k = 1 -> {<<>>,
                   <<ClassifiedSection("need_statement", <<"need">>),
                     ClassifiedSection("evaluation_plan", <<"eval">>)>>}
      [] k = 2 -> {<<>>, <<ScoringCriterion("general", 20)>>}
      [] k = 3 -> {{}, {<<"need_statement", 300>>}}
      [] k = 4 -> {<<"nonprofit">>}
      [] k = 5 -> {None, "March 1, 2026"}
      [] k = 6 -> {"$50,000"}
      [] k = 7 -> {<<"font: 12pt">>}
      [] k = 8 -> {<<"budget">>}
      [] k = 9 -> {ExtractTitleAndFunder(found[1], found[2]) :
                      found \in {<<"", "">>, <<"RFP 2026", "City">>}}

FieldRaised == [status |-> "raised", value |-> <<>>]
FieldDone(v) == [status |-> "done", value |-> v]

\* one asyncio.to_thread(extractor, text) task runs to its end: it returns
\* its output or raises; gather(return_exceptions=True) keeps either in the
\* slot of the task
ExtractorThread(k) ==
    /\ parse_pc = "fields"
    /\ field_results[k].status = "pending"
    /\ \/ field_results' = [field_results EXCEPT ![k] = FieldRaised]
       \/ \E v \in ExtractorOutputs(k) :
              field_results' = [field_results EXCEPT ![k] = FieldDone(v)]
    /\ UNCHANGED <<use_ocr, file_type, filename, extracted, extraction_method,
                   parsed, parse_pc, not_parse>>

\* lines 227-235: "results[k] if not isinstance(results[k], Exception) else
\* default"
FieldDefault(k) ==
    CASE k \in {1, 2, 4, 7, 8} -> <<>>
      [] k = 3 -> {}
      [] k \in {5, 6} -> None
      [] k = 9 -> <<"", "">>
ResultOrDefault_ClassifierFailureSpreads(frs, k) ==
    IF frs[k].status = "raised" \/ frs[1].status = "raised"
    THEN FieldDefault(k) ELSE frs[k].value

ResultOrDefault(frs, k) ==
    IF frs[k].status = "raised" THEN FieldDefault(k) ELSE frs[k].value

\* lines 238-240: the limits are written into the sections by name
ApplyWordLimits(secs, word_limits) ==
    [j \in 1..Len(secs) |->
        IF \E item \in word_limits : item[1] = secs[j].name
        THEN [secs[j] EXCEPT !.word_limit =
                 (CHOOSE item \in word_limits : item[1] = secs[j].name)[2]]
        ELSE secs[j]]

\* "a or b" on strings
StrOr(a, b) == IF a # "" THEN a ELSE b

\* _calculate_confidence without the share of the sections
CalculateConfidence_NoSectionShare(secs, criteria, deadline) ==
    LET criteria_part == Min((Len(criteria) * Scale) \div 3, (3 * Scale) \div 10)
        deadline_part == IF deadline # None /\ deadline # ""
                         THEN (2 * Scale) \div 10 ELSE 0
        base == Scale \div 10
    IN Min(criteria_part + deadline_part + base, Scale)

\* _calculate_confidence, in units of 1/Scale
CalculateConfidence(secs, criteria, deadline) ==
    LET section_part == Min((Len(secs) * Scale) \div 5, (4 * Scale) \div 10)
        criteria_part == Min((Len(criteria) * Scale) \div 3, (3 * Scale) \div 10)
        deadline_part == IF deadline # None /\ deadline # ""
                         THEN (2 * Scale) \div 10 ELSE 0
        base == Scale \div 10
    IN Min(section_part + criteria_part + deadline_part + base, Scale)

\* lines 242-255: the ParsedRFP built from the gathered results
ParsedRFP(frs, fname, raw_text, method) ==
    LET secs == ApplyWordLimits(ResultOrDefault(frs, 1), ResultOrDefault(frs, 3))
        title_funder == ResultOrDefault(frs, 9)
    IN [title |-> StrOr(title_funder[1], StrOr(fname, "Untitled RFP")),
        funder_name |-> StrOr(title_funder[2], "Unknown Funder"),
        sections |-> secs,
        scoring_criteria |-> ResultOrDefault(frs, 2),
        eligibility |-> ResultOrDefault(frs, 4),
        deadline |-> ResultOrDefault(frs, 5),
        funding_amount |-> ResultOrDefault(frs, 6),
        formatting_requirements |-> ResultOrDefault(frs, 7),
        required_attachments |-> ResultOrDefault(frs, 8),
        raw_text |-> raw_text,
        extraction_method |-> method,
        confidence_score |->
            CalculateConfidence(secs, ResultOrDefault(frs, 2),
                                ResultOrDefault(frs, 5))]


\* lines 225-262: gather has every result; the ParsedRFP is built and
\* returned
ParseReturn ==
    /\ parse_pc = "fields"
    /\ \A k \in 1..Len(Extractors) : field_results[k].status # "pending"
    /\ \E fname \in Filenames :
         /\ filename' = fname
         /\ parsed' = <<ParsedRFP(field_results, fname, extracted,
                                  extraction_method)>>
    /\ parse_pc' = "returned"
    /\ UNCHANGED <<use_ocr, file_type, extracted, extraction_method,
                   field_results, not_parse>>

ParseNext ==
    \/ ParseExtractText
    \/ ParseOcrFallback
    \/ \E k \in 1..Len(Extractors) : ExtractorThread(k)
    \/ ParseReturn

SpecParse == ParseInit /\ [][ParseNext]_vars

\* ------------------------------------------------------------------------
\* RFPParserService._extract_word_limits.  A text is a sequence of phrases,
\* and the 200 characters before a match are the ContextWindow phrases
\* before it.
\* ------------------------------------------------------------------------
MaxLimitTextLen == 4
ContextWindow == 2

\* WORD_LIMIT_PATTERNS: the first two, each with the phrase of the texts it
\* matches and the number it captures there
WORD_LIMIT_PATTERNS ==
    << [phrase |-> "maximum 300 words", count |-> 300],
       [phrase |-> "500-word limit", count |-> 500] >>

\* section_name.replace("_", " ")
SpacedName(section_name) ==
    CASE section_name = "need_statement" -> "need statement"
      [] section_name = "evaluation_plan" -> "evaluation plan"

\* the texts tried
LimitPhrases ==
    {"need statement", "evaluation plan", "x"}
        \cup {WORD_LIMIT_PATTERNS[k].phrase : k \in 1..Len(WORD_LIMIT_PATTERNS)}
LimitTexts == UNION {[1..n -> LimitPhrases] : n \in 0..MaxLimitTextLen}

\* text[max(0, match.start() - 200):match.start()]
Context(t, m) == SubSeq(t, Max(1, m - ContextWindow), m - 1)

\* lines 468-471: the first name of SECTION_PATTERNS, in table order, that
\* occurs in the context
AttributedSection(context) ==
    LET hit(k) == Occurs(SpacedName(SECTION_PATTERNS[k].name), context)
    IN IF \E k \in 1..Len(SECTION_PATTERNS) : hit(k)
       THEN SECTION_PATTERNS[CHOOSE k \in 1..Len(SECTION_PATTERNS) :
                hit(k) /\ \A j \in 1..(k-1) : ~hit(j)].name
       ELSE None

\* re.finditer: the position of the next match of pattern p after a
\* position, 0 when there is none
NextMatch(t, p, after) ==
    LET ms == {m \in (after + 1)..Len(t) : t[m] = WORD_LIMIT_PATTERNS[p].phrase}
    IN IF ms = {} THEN 0 ELSE CHOOSE m \in ms : \A q \in ms : m <= q

\* limits[section_name] = word_count
SetLimit(d, section_name, word_count) ==
    {item \in d : item[1] # section_name} \cup {<<section_name, word_count>>}

\* limits = {}, the outer loop at the first pattern
LimitsInit ==
    /\ ClassifyIdle /\ ScoreIdle /\ CrosswalkIdle /\ GapIdle /\ PlanIdle
    /\ ParseIdle
    /\ limit_text \in LimitTexts
    /\ pattern = 1
    /\ match_pos = 0
    /\ limits = {}
    /\ limits_pc = "scan"

\* the body of the loop over the matches of one pattern
HandleMatch ==
    /\ limits_pc = "scan"
    /\ NextMatch(limit_text, pattern, match_pos) # 0
    /\ LET m == NextMatch(limit_text, pattern, match_pos)
           section_name == AttributedSection(Context(limit_text, m))
       IN /\ match_pos' = m
          /\ limits' = IF section_name = None THEN limits
                        ELSE SetLimit(limits, section_name,
                                      WORD_LIMIT_PATTERNS[pattern].count)
    /\ UNCHANGED <<limit_text, pattern, limits_pc, not_limits>>

\* the matches of a pattern are used up: the outer loop goes on
NextPattern ==
    /\ limits_pc = "scan"
    /\ NextMatch(limit_text, pattern, match_pos) = 0
    /\ pattern < Len(WORD_LIMIT_PATTERNS)
    /\ pattern' = pattern + 1
    /\ match_pos' = 0
    /\ UNCHANGED <<limit_text, limits, limits_pc, not_limits>>

\* return limits
LimitsReturn ==
    /\ limits_pc = "scan"
    /\ NextMatch(limit_text, pattern, match_pos) = 0
    /\ pattern = Len(WORD_LIMIT_PATTERNS)
    /\ limits_pc' = "returned"
    /\ UNCHANGED <<limit_text, pattern, match_pos, limits, not_limits>>

LimitsNext == HandleMatch \/ NextPattern \/ LimitsReturn

SpecWordLimits == LimitsInit /\ [][LimitsNext]_vars

\* ------------------------------------------------------------------------
\* The three stages after the parser, run one after the other on a returned
\* ParsedRFP: generate_crosswalk, analyze, generate_plan
\* ------------------------------------------------------------------------
MaxPipelineSections == 2

\* the sections of the parsed documents tried: one that names no keyword of
\* any area, one whose area has a corpus entry that shares nothing with it,
\* one whose area has an entry tagged with a word of it, one whose area
\* has no corpus entry, and one under another label
PipelineSections ==
    {ClassifiedSection("need_statement", <<"need">>),
     ClassifiedSection("need_statement", <<"need", SP, "paternity">>),
     ClassifiedSection("need_statement", <<"need", SP, "reentry">>),
     ClassifiedSection("evaluation_plan", <<"eval", SP, "outcomes">>),
     ClassifiedSection("budget", <<"budget", SP, "paternity">>)}
PipelineSectionLists ==
    UNION {[1..n -> PipelineSections] : n \in 0..MaxPipelineSections}

\* the gathered extractor results of such a document
PipelineFieldResults(secs, criteria, word_limits) ==
    [k \in 1..Len(Extractors) |->
        FieldDone(CASE k = 1 -> secs
                    [] k = 2 -> criteria
                    [] k = 3 -> word_limits
                    [] OTHER -> CHOOSE v \in ExtractorOutputs(k) : TRUE)]

\* parse_document has returned a ParsedRFP; an engine is constructed on the
\* default corpus, with or without a fitted vectorizer, and
\* generate_crosswalk is called on the document
PipelineInit ==
    /\ ClassifyIdle /\ ScoreIdle /\ GapIdle /\ PlanIdle /\ LimitsIdle
    /\ use_ocr = FALSE /\ file_type = "pdf" /\ filename = "rfp.pdf"
    /\ extracted = TextOfLength(MinTextLen + 150, MinTextLen + 150)
    /\ extraction_method = "pdfplumber"
    /\ \E secs \in PipelineSectionLists, criteria \in ExtractorOutputs(2),
          word_limits \in ExtractorOutputs(3) :
         field_results = PipelineFieldResults(secs, criteria, word_limits)
    /\ parsed = <<ParsedRFP(field_results, filename, extracted, extraction_method)>>
    /\ parse_pc = "returned"
    /\ boilerplate_data = DefaultBoilerplate
    /\ \E ml \in BOOLEAN :
         /\ use_ml = ml
         /\ vectorizer = IF ml THEN "fitted" ELSE None
    /\ rfp_sections = parsed[1].sections
    /\ boilerplate_sections = <<>>
    /\ section_results = [k \in 1..Len(rfp_sections) |-> Pending]
    /\ results = <<>>
    /\ cw_pc = "gather"

PipelineNext ==
    \/ \E k \in 1..Len(rfp_sections) : MatchSectionThread(k)
    \/ GenerateCrosswalkReturn
    \/ Analyze
    \/ PlanStart
    \/ PlanCreateSections
    \/ PlanReturn

SpecPipeline == PipelineInit /\ [][PipelineNext]_vars

\* ------------------------------------------------------------------------
\* C1: section contents against the original lines
\* ------------------------------------------------------------------------
RECURSIVE IsSubseq(_, _)
\* a embeds into b by a strictly increasing index map
IsSubseq(a, b) ==
    IF Len(a) = 0 THEN TRUE
    ELSE IF Len(b) = 0 THEN FALSE
    ELSE IF Head(a) = Head(b) THEN IsSubseq(Tail(a), Tail(b))
    ELSE IsSubseq(a, Tail(b))

RECURSIVE ContentLines(_)
\* the lines of the section contents, concatenated in output order
ContentLines(ss) ==
    IF Len(ss) = 0 THEN <<>>
    ELSE Split(Head(ss).content) \o ContentLines(Tail(ss))

TrimAll(ls) == [k \in 1..Len(ls) |-> Strip(ls[k])]

RECURSIVE NonBlank(_)
NonBlank(ls) ==
    IF Len(ls) = 0 THEN <<>>
    ELSE IF Strip(Head(ls)) = <<>> THEN NonBlank(Tail(ls))
    ELSE <<Head(ls)>> \o NonBlank(Tail(ls))

IsHeader(k) == MatchedSection(lines[k]) # None
HasHeader == \E k \in 1..Len(lines) : IsHeader(k)
FirstHeader == CHOOSE k \in 1..Len(lines) : IsHeader(k) /\ \A j \in 1..(k-1) : ~IsHeader(j)
\* every line from the first header on is buffered under some open section
BufferedLines == IF HasHeader THEN SubSeq(lines, FirstHeader, Len(lines)) ELSE <<>>

\* C1 (as claimed): the section contents, concatenated in output order, are a
\* subsequence of the original lines in original order, and a section is
\* emitted with exactly the lines that were buffered under it.
C1_SubsequenceOfLines ==
    /\ [](IsSubseq(ContentLines(sections), lines))
    /\ [][Len(sections') > Len(sections) =>
            Split(sections'[Len(sections')].content) = section_content]_vars

\* C1 (amended): compared line by line after trimming surrounding whitespace,
\* the concatenated section contents are a subsequence of the original lines
\* in original order, and when the call returns they are exactly the non-blank
\* buffered lines plus the blank lines inside a section: every non-blank
\* buffered line is present, once, in order.
C1_SubsequenceModuloStrip ==
    /\ IsSubseq(TrimAll(ContentLines(sections)), TrimAll(lines))
    /\ pc = "done" =>
         NonBlank(TrimAll(ContentLines(sections))) = NonBlank(TrimAll(BufferedLines))

\* C1 witness: a finished call with two sections where stripping changed
\* what was buffered.
C1_Witness ==
    pc = "done" /\ Len(sections) >= 2 /\ ContentLines(sections) # BufferedLines

\* ------------------------------------------------------------------------
\* C4, C5, C6: _score_alignment and _assess_risk
\* ------------------------------------------------------------------------
LevelRank(level) ==
    CASE level = "none" -> 0 [] level = "weak" -> 1
      [] level = "partial" -> 2 [] level = "strong" -> 3

C5_MonotonicInSimilarity ==
    \A j, k \in 1..Len(scored) :
        (scored[j].tag_match = scored[k].tag_match
            /\ scored[j].similarity <= scored[k].similarity) =>
        /\ scored[j].result.alignment_score <= scored[k].result.alignment_score
        /\ LevelRank(scored[j].result.alignment_level)
             <= LevelRank(scored[k].result.alignment_level)

\* C5 witness: two calls with the same tag_match, the second with a larger
\* similarity and a higher level.
C5_Witness ==
    /\ Len(scored) = 2
    /\ scored[1].similarity < scored[2].similarity
    /\ scored[1].tag_match = scored[2].tag_match
    /\ scored[1].result.alignment_level = "partial"
    /\ scored[2].result.alignment_level = "strong"

\* C6: the risk of every scored pairing follows the table
\* strong -> green; partial -> yellow if importance > 0.5 else green;
\* weak -> red if importance > 0.5 else yellow; none -> red if
\* importance > 0.5 else yellow; where importance is the section's scoring
\* weight, or 0.5 when the section has none.
C6_RiskTable ==
    \A k \in 1..Len(scored) :
        LET c == scored[k]
            level == c.result.alignment_level
            importance == IF c.scoring_weight = NoneNum THEN Scale \div 2
                          ELSE c.scoring_weight
            high == 2 * importance > Scale
        IN c.result.risk_level =
             CASE level = "strong"  -> "green"
               [] level = "partial" -> (IF high THEN "yellow" ELSE "green")
               [] level = "weak"    -> (IF high THEN "red" ELSE "yellow")
               [] level = "none"    -> (IF high THEN "red" ELSE "yellow")

\* C6 witness: a weak alignment of a section with no scoring weight, assessed
\* yellow.
C6_Witness ==
    \E k \in 1..Len(scored) :
        /\ scored[k].scoring_weight = NoneNum
        /\ scored[k].result.alignment_level = "weak"
        /\ scored[k].result.risk_level = "yellow"

\* ------------------------------------------------------------------------
\* C2, C3: results of generate_crosswalk per requirement section
\* ------------------------------------------------------------------------
\* C2 (as claimed): generate_crosswalk keeps one result per requirement
\* section, the highest-scoring one, so no section contributes more than one
\* result and there are never more results than sections.
C2_OneResultPerSection ==
    cw_pc = "done" =>
        /\ \A k \in 1..Len(rfp_sections) : Len(section_results[k].results) <= 1
        /\ Len(results) <= Len(rfp_sections)

\* C3 (as claimed): a section none of whose matching areas has a corpus entry
\* (in particular one that matches no area) yields exactly one result, with
\* gap_flag true, risk red and level none.
C3_DegenerateResult ==
    cw_pc = "done" =>
        \A k \in 1..Len(rfp_sections) :
            (section_results[k].status = "returned" /\ AreasWithBoilerplate(k) = <<>>) =>
                /\ Len(section_results[k].results) = 1
                /\ section_results[k].results[1].gap_flag
                /\ section_results[k].results[1].risk_level = "red"
                /\ section_results[k].results[1].alignment_level = "none"

\* ------------------------------------------------------------------------
\* C7, C8: overall score and overall risk level
\* ------------------------------------------------------------------------
RedFindings == SeverityCount(findings, "red")
YellowFindings == SeverityCount(findings, "yellow")
GreenFindings == SeverityCount(findings, "green")

\* C7: overall_score is 100 - 15*red - 5*yellow - 1*green clamped to [0,100];
\* adding a finding never increases it; with more than 7 red findings it is
\* 0, never negative.
C7_OverallScore ==
    /\ [](LET raw == 100 - 15 * RedFindings - 5 * YellowFindings - GreenFindings
          IN /\ overall_score = (IF raw < 0 THEN 0 ELSE IF raw > 100 THEN 100 ELSE raw)
             /\ overall_score \in 0..100
             /\ RedFindings > 7 => overall_score = 0)
    /\ [][Len(findings') > Len(findings) => overall_score' <= overall_score]_vars

\* C7 witness: more than 7 red findings and a score of 0.
C7_Witness == RedFindings > 7 /\ overall_score = 0

\* C8: overall_risk_level is red with at least 3 red findings, otherwise
\* yellow with at least 1 red or at least 5 yellow findings, otherwise green;
\* 5 red and 2 yellow findings give red and a score of 15.
C8_OverallRiskLevel ==
    /\ overall_risk =
         (IF RedFindings >= 3 THEN "red"
          ELSE IF RedFindings >= 1 \/ YellowFindings >= 5 THEN "yellow"
          ELSE "green")
    /\ (RedFindings = 5 /\ YellowFindings = 2 /\ GreenFindings = 0) =>
         (overall_risk = "red" /\ overall_score = 15)

\* C8 witness: the findings of scenario D.
C8_Witness ==
    /\ RedFindings = 5 /\ YellowFindings = 2 /\ GreenFindings = 0
    /\ overall_risk = "red" /\ overall_score = 15

\* ------------------------------------------------------------------------
\* C9: stated word limits in the plan
\* ------------------------------------------------------------------------
\* C9 (as claimed): in the returned plan every PlanSection built from a
\* requirement section with a stated word limit has exactly that limit as
\* its word_count_target, whatever the section's label and weight.
C9_StatedWordLimitKept ==
    plan_pc = "done" =>
        \A k \in 1..Len(rfp_sections) :
            rfp_sections[k].word_limit # NoneNum =>
                plan[1].sections[k].word_count_target = rfp_sections[k].word_limit

\* ------------------------------------------------------------------------
\* C10: parse_document and texts that are not meaningful
\* ------------------------------------------------------------------------
\* C10 (as claimed): a call that obtained no meaningful text (under the
\* threshold, from the extractor or from the OCR fallback) ends in a raised
\* error: a returned ParsedRFP has a meaningful, in particular non-empty,
\* raw_text.
C10_NeverSilentlyEmpty ==
    parse_pc = "returned" =>
        /\ parsed[1].raw_text.chars > 0
        /\ ~TooShort(parsed[1].raw_text)

\* ------------------------------------------------------------------------
\* OCR fallback of parse_document
\* ------------------------------------------------------------------------
IsPdf == NormalizedType(file_type) = "pdf"
IsDocx == NormalizedType(file_type) = "docx"
\* the step in which the text layer came back from pdfplumber / python-docx
TextLayerRead ==
    /\ parse_pc = "extract"
    /\ extraction_method' \in {"pdfplumber", "python-docx"}
\* the text is empty or has fewer than 100 characters once stripped
ShortAfterStrip(t) == t.chars = 0 \/ t.stripped < 100
Returned == parse_pc = "returned" /\ Len(parsed) = 1

\* C11 (as claimed): whenever a PDF's text layer has fewer than 100
\* characters the call takes the OCR path and a returned extraction_method is
\* 'pytesseract_ocr'; the OCR path is never taken for DOCX or for a PDF whose
\* text layer has at least 100 characters, where the method stays
\* 'python-docx' or 'pdfplumber'
C11_OcrWheneverShortPdf ==
    /\ [][TextLayerRead /\ IsPdf /\ extracted'.chars < 100
            => parse_pc' = "ocr"]_vars
    /\ [][parse_pc' = "ocr" /\ parse_pc # "ocr"
            => IsPdf /\ extracted'.chars < 100]_vars
    /\ [](Returned =>
            /\ IsDocx => parsed[1].extraction_method = "python-docx"
            /\ IsPdf /\ parsed[1].extraction_method # "pytesseract_ocr"
                 => parsed[1].extraction_method = "pdfplumber")

\* C11 (amended): with OCR enabled (requested and pytesseract importable), a
\* PDF whose text layer is empty or under 100 characters once stripped takes
\* the OCR path, and a call that returns after it reports 'pytesseract_ocr';
\* with OCR disabled the same PDF makes the call raise; the OCR path is taken
\* in no other case, and a call that returns without it reports 'pdfplumber'
\* for a PDF and 'python-docx' for a DOCX, with a text of at least 100
\* stripped characters
C11_OcrWhenEnabledAndShortPdf ==
    /\ [][TextLayerRead /\ IsPdf /\ ShortAfterStrip(extracted')
            => parse_pc' = (IF use_ocr THEN "ocr" ELSE "raised")]_vars
    /\ [][parse_pc' = "ocr" /\ parse_pc # "ocr"
            => /\ TextLayerRead /\ IsPdf /\ use_ocr
               /\ ShortAfterStrip(extracted')]_vars
    /\ [][parse_pc = "ocr" /\ parse_pc' = "fields"
            => extraction_method' = "pytesseract_ocr"]_vars
    /\ [](Returned =>
            /\ parsed[1].extraction_method = extraction_method
            /\ IsDocx => /\ parsed[1].extraction_method = "python-docx"
                         /\ ~ShortAfterStrip(parsed[1].raw_text)
            /\ IsPdf /\ parsed[1].extraction_method # "pytesseract_ocr"
                 => /\ parsed[1].extraction_method = "pdfplumber"
                    /\ ~ShortAfterStrip(parsed[1].raw_text)
            /\ parsed[1].extraction_method = "pytesseract_ocr"
                 => IsPdf /\ use_ocr)

C11_Witness ==
    /\ Returned /\ IsPdf /\ use_ocr
    /\ parsed[1].extraction_method = "pytesseract_ocr"
    /\ ~ShortAfterStrip(parsed[1].raw_text)

\* ------------------------------------------------------------------------
\* The merge of the extractor results in parse_document
\* ------------------------------------------------------------------------
FieldRaisedAt(k) == field_results[k].status = "raised"
\* the limits the returned sections carry, as (name, limit) items
LimitsHeld ==
    {<<parsed[1].sections[j].name, parsed[1].sections[j].word_limit>> :
        j \in {m \in 1..Len(parsed[1].sections) :
                  parsed[1].sections[m].word_limit # NoneNum}}
DefaultTitles == (Filenames \ {""}) \cup {"Untitled RFP"}
\* the fields of the six extractors whose output is stored as it is
StoredField(k) ==
    CASE k = 2 -> parsed[1].scoring_criteria
      [] k = 4 -> parsed[1].eligibility
      [] k = 5 -> parsed[1].deadline
      [] k = 6 -> parsed[1].funding_amount
      [] k = 7 -> parsed[1].formatting_requirements
      [] k = 8 -> parsed[1].required_attachments
StoredFieldsIsolated ==
    \A k \in {2, 4, 5, 6, 7, 8} :
        StoredField(k) = (IF FieldRaisedAt(k) THEN FieldDefault(k)
                          ELSE field_results[k].value)
TitleFunderIsolated ==
    IF FieldRaisedAt(9)
    THEN /\ parsed[1].title \in DefaultTitles
         /\ parsed[1].funder_name = "Unknown Funder"
    ELSE /\ parsed[1].title = field_results[9].value[1]
         /\ parsed[1].funder_name = field_results[9].value[2]
GatherNeverRaises ==
    [][parse_pc = "fields" => parse_pc' \in {"fields", "returned"}]_vars

\* C12 (as claimed): whichever extractors raise, the call returns a ParsedRFP
\* in which the field of each failed extractor holds its default (empty
\* list, no word limits, no deadline, no funding amount, default
\* title/funder) and the field of each other extractor holds exactly that
\* extractor's output
C12_EveryFieldIsItsExtractorOutput ==
    /\ GatherNeverRaises
    /\ [](Returned =>
            /\ StoredFieldsIsolated
            /\ TitleFunderIsolated
            /\ parsed[1].sections =
                   (IF FieldRaisedAt(1) THEN <<>> ELSE field_results[1].value)
            /\ LimitsHeld =
                   (IF FieldRaisedAt(3) THEN {} ELSE field_results[3].value))

\* C12 (amended): whichever extractors raise, the call returns a ParsedRFP;
\* criteria, eligibility, deadline, funding amount, formatting requirements,
\* attachments and title/funder hold the extractor's output, or the default
\* when it raised; the sections are the classifier's sections (none when it
\* raised), in its order and with its names and contents, and the word limit
\* of a section is the limit the word-limit extractor returned for its name,
\* or none when that extractor raised or returned no limit for the name
C12_FailuresDegradeOnlyTheirField ==
    /\ GatherNeverRaises
    /\ [](Returned =>
            LET classified == IF FieldRaisedAt(1) THEN <<>>
                              ELSE field_results[1].value
                held_limits == IF FieldRaisedAt(3) THEN {}
                               ELSE field_results[3].value
            IN /\ StoredFieldsIsolated
               /\ TitleFunderIsolated
               /\ Len(parsed[1].sections) = Len(classified)
               /\ \A j \in 1..Len(classified) :
                    /\ parsed[1].sections[j].name = classified[j].name
                    /\ parsed[1].sections[j].content = classified[j].content
                    /\ parsed[1].sections[j].scoring_weight =
                           classified[j].scoring_weight
                    /\ \A n \in {NoneNum, 300} :
                         parsed[1].sections[j].word_limit = n <=>
                             IF \E item \in held_limits : item[1] = classified[j].name
                             THEN <<classified[j].name, n>> \in held_limits
                             ELSE n = NoneNum
               /\ LimitsHeld \subseteq held_limits)

C12_Witness ==
    /\ Returned
    /\ FieldRaisedAt(2) /\ FieldRaisedAt(5) /\ FieldRaisedAt(9)
    /\ ~FieldRaisedAt(1) /\ ~FieldRaisedAt(3)
    /\ Len(parsed[1].sections) = 2
    /\ parsed[1].sections[1].word_limit = 300
    /\ parsed[1].sections[2].word_limit = NoneNum
    /\ parsed[1].required_attachments = <<"budget">>
    /\ parsed[1].title = "rfp.pdf"

\* ------------------------------------------------------------------------
\* Confidence of a parse that found nothing
\* ------------------------------------------------------------------------
DeadlineFound == parsed[1].deadline # None
\* the confidence of a result without sections and criteria: the base 0.1,
\* and 0.2 more with a deadline
NothingFoundConfidence ==
    (Scale \div 10) + (IF DeadlineFound THEN (2 * Scale) \div 10 ELSE 0)

\* C14: once the text is extracted the call returns and never raises; the
\* confidence of every returned ParsedRFP is within [0,1]; a result with no
\* section and no criterion has the confidence 0.1 (0.3 with a deadline), and
\* every result with a section or a criterion and the same deadline outcome
\* has a strictly higher one
C14_NothingFoundIsLowConfidence ==
    /\ GatherNeverRaises
    /\ [](Returned =>
            /\ parsed[1].confidence_score >= 0
            /\ parsed[1].confidence_score <= Scale
            /\ IF Len(parsed[1].sections) = 0
                  /\ Len(parsed[1].scoring_criteria) = 0
               THEN parsed[1].confidence_score = NothingFoundConfidence
               ELSE parsed[1].confidence_score > NothingFoundConfidence)

C14_Witness ==
    /\ Returned
    /\ ~FieldRaisedAt(1) /\ ~FieldRaisedAt(2)
    /\ parsed[1].sections = <<>> /\ parsed[1].scoring_criteria = <<>>
    /\ ~ShortAfterStrip(parsed[1].raw_text)
    /\ DeadlineFound
    /\ parsed[1].confidence_score = (3 * Scale) \div 10

\* ------------------------------------------------------------------------
\* The engine under concurrent _match_section calls
\* ------------------------------------------------------------------------
\* what _match_section returns for section k when it is the only call on an
\* engine in the present state
ResultsWhenAlone(k) ==
    {MatchSection(rfp_sections[k], boilerplate_sections, cosine) :
        cosine \in [{AreasWithBoilerplate(k)[j] :
                        j \in 1..Len(AreasWithBoilerplate(k))} -> CosineChoices]}

\* C15: no step after the construction changes the corpus, the use_ml flag
\* or the vectorizer of the engine, and in every interleaving of the
\* per-section calls each call that has ended holds a result it returns when
\* run alone
C15_EngineReadOnlyUnderConcurrency ==
    /\ [][UNCHANGED vars_engine]_vars
    /\ [](\A k \in 1..Len(section_results) :
             section_results[k].status # "pending"
                 => section_results[k] \in ResultsWhenAlone(k))

C15_Witness ==
    /\ cw_pc = "done" /\ Len(rfp_sections) = 2
    /\ use_ml /\ vectorizer = "fitted"
    /\ rfp_sections[1] # rfp_sections[2]
    /\ \A k \in 1..2 : /\ section_results[k].status = "returned"
                       /\ Len(section_results[k].results) > 0
    /\ section_results[1].results[1].alignment_score
           # section_results[2].results[1].alignment_score

\* ------------------------------------------------------------------------
\* The stages on a document in which nothing matches
\* ------------------------------------------------------------------------
\* the document has no section, or no section with an area that has a corpus
\* entry
NothingMatched ==
    /\ parse_pc = "returned"
    /\ \A k \in 1..Len(rfp_sections) : AreasWithBoilerplate(k) = <<>>
CrosswalkReturned == cw_pc = "done"
AnalyzeReturned == overall_risk # None
PlanReturned == plan_pc = "done" /\ Len(plan) = 1

\* C13: on a document without sections, or without a section that matches a
\* corpus area, with or without scoring criteria, no stage raises and each
\* runs to its return: generate_crosswalk returns the empty list, analyze a
\* GapAnalysis with a risk level and a score, generate_plan a GrantPlan with
\* one PlanSection for each section
C13_StagesReturnWhenNothingMatched ==
    NothingMatched =>
        /\ cw_pc \in {"gather", "done"}
        /\ plan_pc \in {"idle", "tasks", "allocate", "done"}
        /\ plan_pc # "done" => ENABLED PipelineNext
        /\ CrosswalkReturned => results = <<>>
        /\ AnalyzeReturned =>
              /\ overall_risk \in Severities
              /\ overall_score \in 0..100
        /\ plan_pc = "done" =>
              /\ PlanReturned /\ AnalyzeReturned /\ CrosswalkReturned
              /\ plan[1].total_sections = Len(rfp_sections)

C13_Witness ==
    /\ NothingMatched /\ PlanReturned
    /\ Len(rfp_sections) = 2
    /\ rfp_sections[1].content = <<"need">>
    /\ rfp_sections[2].content = <<"eval", SP, "outcomes">>
    /\ PlanCriteria # <<>>
    /\ plan[1].scoring_summary.keys = <<>>
    /\ results = <<>>

\* ------------------------------------------------------------------------
\* The GapAnalysis analyze returns
\* ------------------------------------------------------------------------
\* C17 (as claimed): top_recommendations has at most 5 entries and no entry
\* twice, the CRITICAL and HIGH PRIORITY entries included
C17_AtMostFiveDistinctRecommendations ==
    AnalyzeReturned =>
        /\ Len(top_recommendations) <= 5
        /\ \A j, k \in 1..Len(top_recommendations) :
              top_recommendations[j] = top_recommendations[k] => j = k

\* C18 (as claimed): every GapFinding analyze produces has a priority from 1
\* to 5
C18_PriorityFromOneToFive ==
    AnalyzeReturned =>
        \A k \in 1..Len(findings) : findings[k].priority \in 1..5

\* ------------------------------------------------------------------------
\* The inputs of the stages
\* ------------------------------------------------------------------------
\* C19: no step of generate_crosswalk, analyze or generate_plan changes the
\* ParsedRFP or its sections (contents, word limits, weights); once
\* generate_crosswalk has returned, the list of results is not changed; once
\* analyze has returned, the GapAnalysis is not changed; the word-count
\* allocation of generate_plan changes the PlanSections only
C19_StagesLeaveInputsUnchanged ==
    /\ [][UNCHANGED <<parsed, rfp_sections>>]_vars
    /\ [][CrosswalkReturned => UNCHANGED results]_vars
    /\ [][AnalyzeReturned => UNCHANGED vars_gap]_vars
    /\ [](Len(parsed) = 1 /\ rfp_sections = parsed[1].sections)
    /\ [][plan_pc = "allocate" =>
            UNCHANGED <<parsed, rfp_sections, results, vars_gap, vars_engine>>]_vars

C19_Witness ==
    /\ PlanReturned
    /\ Len(rfp_sections) = 2 /\ Len(results) > 0 /\ Len(findings) > 0
    /\ rfp_sections[1].word_limit = 300
    /\ \E k \in 1..Len(plan[1].sections) :
          plan[1].sections[k].word_count_target \notin {300, 500}

\* ------------------------------------------------------------------------
\* The sections of a generated plan
\* ------------------------------------------------------------------------
\* C16 (as claimed): the plan has one PlanSection for each parsed section, in
\* parsed order and numbered 1..n, and for a document without sections the 8
\* entries of the generic template
C16_OneSectionPerRequirementOrTemplate ==
    PlanReturned =>
        IF Len(rfp_sections) >= 1
        THEN /\ Len(plan[1].sections) = Len(rfp_sections)
             /\ \A k \in 1..Len(rfp_sections) : plan[1].sections[k].order = k
        ELSE Len(plan[1].sections) = 8

\* ------------------------------------------------------------------------
\* The classifier as a state machine over the lines
\* ------------------------------------------------------------------------
RECURSIVE FirstLabelFrom(_, _)
\* the label of the first table entry from the n-th on with a pattern in the
\* line
FirstLabelFrom(line, n) ==
    IF n > Len(SECTION_PATTERNS) THEN None
    ELSE IF \E j \in 1..Len(line) : line[j] \in SECTION_PATTERNS[n].words
         THEN SECTION_PATTERNS[n].name
         ELSE FirstLabelFrom(line, n + 1)
\* the indices of the matching lines, in line order
Headers == SelectSeq([k \in 1..Len(lines) |-> k], LAMBDA k : IsHeader(k))
HeadersBefore(n) == SelectSeq(Headers, LAMBDA k : k < n)
\* the lines from the n-th matching line up to the next one
Segment(n) ==
    SubSeq(lines, Headers[n],
           IF n < Len(Headers) THEN Headers[n + 1] - 1 ELSE Len(lines))

\* C20: the classifier reads each line once, in order; before line i it
\* holds the label of the last matching line before i (the first label in
\* table order with a pattern in that line) and all lines from that one on,
\* nothing before the first matching line, and has emitted one section for
\* each earlier matching line; at the end there is exactly one section for
\* each matching line, in line order, under that line's label, made of the
\* lines up to the next matching line
C20_SinglePassStateMachine ==
    /\ [][pc = "loop" /\ i <= Len(lines) => i' = i + 1 /\ pc' = "loop"]_vars
    /\ [](pc = "loop" =>
            LET seen == HeadersBefore(i)
            IN IF Len(seen) = 0
               THEN /\ current_section = None /\ section_content = <<>>
                    /\ sections = <<>>
               ELSE /\ current_section =
                          FirstLabelFrom(lines[seen[Len(seen)]], 1)
                    /\ section_content = SubSeq(lines, seen[Len(seen)], i - 1)
                    /\ Len(sections) = Len(seen) - 1)
    /\ [](\A n \in 1..Len(sections) :
             /\ n <= Len(Headers)
             /\ sections[n].name = FirstLabelFrom(lines[Headers[n]], 1)
             /\ sections[n].content = Strip(Join(Segment(n))))
    /\ [](pc = "done" => Len(sections) = Len(Headers))

C20_Witness ==
    /\ pc = "done"
    /\ lines = << <<"need", SP, "eval">>, <<"eval">> >>
    /\ Len(sections) = 2
    /\ sections[1].name = "need_statement"
    /\ sections[1].content = <<"need", SP, "eval">>
    /\ sections[2].name = "evaluation_plan"

\* ------------------------------------------------------------------------
\* The order and the numbering of the findings
\* ------------------------------------------------------------------------
\* the results _categorize_gaps files as alignment gaps and as match gaps
AlignmentGaps == SelectSeq(results, LAMBDA r : r.gap_flag)
MatchGaps == SelectSeq(results, LAMBDA r : r.alignment_level = "none")
\* the findings after the two gap blocks, and their number of one kind
OtherFindings ==
    SubSeq(findings, Len(AlignmentGaps) + Len(MatchGaps) + 1, Len(findings))
OtherCount(category, severity) ==
    Cardinality({k \in 1..Len(OtherFindings) :
                    /\ OtherFindings[k].category = category
                    /\ OtherFindings[k].severity = severity})

SectionItems == SelectSeq(plan[1].compliance_checklist, LAMBDA c : c.section # None)
\* the results of a section, and one of them that no other outscores
RelatedTo(name) == SelectSeq(results, LAMBDA r : r.rfp_section = name)
BestLevels(name) ==
    {RelatedTo(name)[k].alignment_level : k \in
        {k \in 1..Len(RelatedTo(name)) :
            \A j \in 1..Len(RelatedTo(name)) :
                RelatedTo(name)[j].alignment_score <= RelatedTo(name)[k].alignment_score}}

\* C22 (as claimed): the checklist holds one item per parsed section, met
\* iff the section's best-scoring result is strong, partial iff it is
\* partial, unmet otherwise, a section without any result included.
C22_StatusFromAlignmentLevel ==
    plan_pc = "done" =>
        /\ Len(SectionItems) = Len(rfp_sections)
        /\ \A k \in 1..Len(rfp_sections) :
               /\ SectionItems[k].section = rfp_sections[k].name
               /\ SectionItems[k].status =
                      IF "strong" \in BestLevels(rfp_sections[k].name) THEN "met"
                      ELSE IF "partial" \in BestLevels(rfp_sections[k].name)
                      THEN "partial"
                      ELSE "unmet"

\* ------------------------------------------------------------------------
\* The hours estimated for the sections of a plan
\* ------------------------------------------------------------------------
\* round(n / d) for n >= 0, d > 0, halves going to the even neighbour
RoundHalfEven(n, d) ==
    LET q == n \div d
        r == n % d
    IN IF 2 * r < d THEN q
       ELSE IF 2 * r > d THEN q + 1
       ELSE IF q % 2 = 0 THEN q ELSE q + 1

\* C23 (as claimed): in the returned plan every section has
\* estimated_hours = max(1, round(word_count_target / 200 * 1.5)) for its
\* final target, and estimated_total_hours is their sum.
C23_HoursFromFinalTarget ==
    plan_pc = "done" =>
        /\ \A k \in 1..Len(plan[1].sections) :
               plan[1].sections[k].estimated_hours =
                   Max(1, RoundHalfEven(plan[1].sections[k].word_count_target * 3, 400))
        /\ plan[1].estimated_total_hours = SumField(plan[1].sections, "estimated_hours")

\* ------------------------------------------------------------------------
\* The content suggested for the sections of a plan
\* ------------------------------------------------------------------------
SectionTypeWords ==
    {"need", "organizational", "design", "evaluation", "budget", "sustainability"}
\* the first part of a suggestion that comes from the alignment level
AlignmentSuggestionHeads ==
    {"Use boilerplate for", "Adapt boilerplate for", "Develop custom content for",
     "Use boilerplate from", "Adapt boilerplate from",
     "Develop custom narrative emphasizing"}
IsBlockOf(block, blocks) == \E k \in 1..Len(blocks) : blocks[k] = block

\* C24 (as claimed): a section whose title names one of the six section
\* types is given an alignment-derived suggestion and the fixed bullets of
\* its type, with or without alignment results for it.
C24_SuggestionsHoldTypeBullets ==
    plan_pc = "done" =>
        \A k \in 1..Len(plan[1].sections) :
            LET section == plan[1].sections[k]
                blocks == section.suggested_content_blocks
            IN (\E w \in SectionTypeWords : Occurs(w, section.title)) =>
                   /\ \E j \in 1..Len(blocks) : blocks[j][1] \in AlignmentSuggestionHeads
                   /\ \A j \in 1..Len(TypeBullets(section.title)) :
                          IsBlockOf(TypeBullets(section.title)[j], blocks)

\* ------------------------------------------------------------------------
\* The section a word limit is attributed to
\* ------------------------------------------------------------------------
\* the label whose name is the last one in a context
SpacedNames == {SpacedName(SECTION_PATTERNS[k].name) : k \in 1..Len(SECTION_PATTERNS)}
NearestName(context) ==
    LET at == {j \in 1..Len(context) : context[j] \in SpacedNames}
        last == CHOOSE j \in at : \A q \in at : q <= j
    IN IF at = {} THEN None
       ELSE SECTION_PATTERNS[CHOOSE k \in 1..Len(SECTION_PATTERNS) :
                SpacedName(SECTION_PATTERNS[k].name) = context[last]].name

\* C25 (as claimed): each match gives its number to the section whose name
\* is the nearest one before it in its context window.
C25_LimitGoesToNearestName ==
    [][(match_pos' # match_pos /\ match_pos' # 0) =>
          LET nearest == NearestName(Context(limit_text, match_pos'))
          IN nearest # None =>
                 <<nearest, WORD_LIMIT_PATTERNS[pattern].count>> \in limits']_vars

\* ------------------------------------------------------------------------
\* The title of a parsed document
\* ------------------------------------------------------------------------
\* the title extractor found no title line: it returned its placeholder (no
\* text tried has that line), or it raised
NoTitleLine ==
    \/ FieldRaisedAt(9)
    \/ /\ field_results[9].status = "done"
       /\ field_results[9].value[1] = ExtractTitleAndFunder("", "")[1]

\* C26 (as claimed): without a title line the title of the ParsedRFP is the
\* filename when that is not empty, and "Untitled RFP" only when it is.
C26_FilenameIsTitleFallback ==
    (Returned /\ NoTitleLine) =>
        parsed[1].title = IF filename # "" THEN filename ELSE "Untitled RFP"

\* ------------------------------------------------------------------------
\* The scoring summary of a plan
\* ------------------------------------------------------------------------
\* C27 (as claimed): for a document with scoring criteria the returned
\* plan's scoring_summary is populated: total_points_available is the sum
\* of max_points and criteria_by_section lists every criterion.
C27_ScoringSummaryPopulated ==
    (plan_pc = "done" /\ Len(PlanCriteria) > 0) =>
        LET summary == plan[1].scoring_summary
        IN /\ Occurs("total_points_available", summary.keys)
           /\ Occurs("criteria_by_section", summary.keys)
           /\ summary.total_points_available = SumField(PlanCriteria, "max_points")
           /\ \A k \in 1..Len(PlanCriteria) :
                  /\ PlanCriteria[k].section \in DOMAIN summary.criteria_by_section
                  /\ Occurs(PlanCriteria[k],
                            summary.criteria_by_section[PlanCriteria[k].section])

\* ------------------------------------------------------------------------
\* The order of the crosswalk results
\* ------------------------------------------------------------------------
RECURSIVE ExpectedOrder(_)
\* the (section, area) pairs of the sections from the k-th on: for each
\* section whose matching does not raise, its areas with a boilerplate in
\* table order
ExpectedOrder(k) ==
    IF k > Len(rfp_sections) THEN <<>>
    ELSE (IF MatchRaises(rfp_sections[k], boilerplate_sections) THEN <<>>
          ELSE [j \in 1..Len(AreasWithBoilerplate(k)) |->
                    <<rfp_sections[k].name, AreasWithBoilerplate(k)[j]>>])
             \o ExpectedOrder(k + 1)
\* the positions of the areas of a list in the table
TablePosition(area) == CHOOSE k \in 1..Len(AreaOrder) : AreaOrder[k] = area

\* C28: the returned list holds, section by section in parsed order, the
\* results of every section whose matching did not raise, each section's
\* results in the order of the keyword table, and nothing for a section
\* whose matching raised, in whatever order the threads ran.
C28_ResultsInSectionAndTableOrder ==
    cw_pc = "done" =>
        /\ Len(results) = Len(ExpectedOrder(1))
        /\ \A k \in 1..Len(results) :
               <<results[k].rfp_section, results[k].foam_strength>> = ExpectedOrder(1)[k]
        /\ \A k \in 1..Len(section_results) :
               /\ section_results[k].status = "raised" <=>
                      MatchRaises(rfp_sections[k], boilerplate_sections)
               /\ \A j \in 1..(Len(section_results[k].results) - 1) :
                      TablePosition(section_results[k].results[j].foam_strength)
                          < TablePosition(section_results[k].results[j + 1].foam_strength)

\* the first section's matching raised and the second section gave two
\* results, which are the list returned
C28_Witness ==
    /\ cw_pc = "done"
    /\ Len(rfp_sections) = 2
    /\ section_results[1].status = "raised"
    /\ Len(section_results[2].results) = 2
    /\ results = section_results[2].results
    /\ results[1].foam_strength = "reentry"
    /\ results[2].foam_strength = "evaluation"

\* ------------------------------------------------------------------------
\* Risk levels in the pipeline from parse_document on
\* ------------------------------------------------------------------------
\* C29: no section of a parsed document has a scoring weight, so every
\* alignment result the engine builds for it has risk green or yellow, and
\* so has every PlanSection of the plan built from those results.
C29_NoRedRiskFromParsedDocument ==
    /\ \A k \in 1..Len(parsed[1].sections) :
           parsed[1].sections[k].scoring_weight = NoneNum
    /\ \A k \in 1..Len(section_results) :
           \A j \in 1..Len(section_results[k].results) :
               section_results[k].results[j].risk_level \in {"green", "yellow"}
    /\ \A k \in 1..Len(results) : results[k].risk_level \in {"green", "yellow"}
    /\ \A k \in 1..Len(plan_sections) : plan_sections[k].risk_level # "red"
    /\ plan_pc = "done" =>
           \A k \in 1..Len(plan[1].sections) : plan[1].sections[k].risk_level # "red"

\* a plan whose first section stands on a result of level none and whose
\* second on a result of level strong
C29_Witness ==
    /\ plan_pc = "done"
    /\ Len(results) = 2
    /\ results[1].alignment_level = "none" /\ results[1].risk_level = "yellow"
    /\ results[2].alignment_level = "strong" /\ results[2].risk_level = "green"
    /\ plan[1].sections[1].alignment_status = "none"
    /\ plan[1].sections[1].risk_level = "yellow"
    /\ plan[1].sections[2].risk_level = "green"

\* ------------------------------------------------------------------------
\* Results without alignment in the gap analysis
\* ------------------------------------------------------------------------
NoneLevelResults == SelectSeq(results, LAMBDA r : r.alignment_level = "none")
FindingCount(category, severity) ==
    Cardinality({k \in 1..Len(findings) :
                    /\ findings[k].category = category
                    /\ findings[k].severity = severity})

\* C30: a result has its gap flag set exactly when its level is none; the
\* analysis holds one red alignment finding and one yellow match finding
\* for each such result, and each of them takes 20 off the score before it
\* is clamped to 0..100, every other finding taking 5.
C30_NoneLevelIsBothGaps ==
    /\ \A k \in 1..Len(results) :
           results[k].gap_flag <=> results[k].alignment_level = "none"
    /\ AnalyzeReturned =>
           /\ FindingCount("alignment", "red") = Len(NoneLevelResults)
           /\ FindingCount("match", "yellow") = Len(NoneLevelResults)
           /\ FindingCount("match", "red") + FindingCount("match", "green") = 0
           /\ Len(findings) > 0 =>
                  overall_score =
                      Max(0, Min(100, (100 - (20 * Len(NoneLevelResults)))
                                        - (5 * (Len(findings) - (2 * Len(NoneLevelResults))))))

\* two results of level none, two findings for each and one more finding:
\* 100 - 2 * 20 - 5
C30_Witness ==
    /\ AnalyzeReturned
    /\ Len(NoneLevelResults) = 2
    /\ Len(findings) = 5
    /\ overall_score = 55

====
